---------------------------- MODULE Spec2Model ----------------------------
(***************************************************************************)
(* A model of the arkade tapscript execution engine (package arkade):      *)
(* NewEngine, Execute, Step, executeOpcode, verifyWitnessProgram,          *)
(* CheckErrorCondition and the taproot signature verifier with its         *)
(* signature cache.                                                        *)
(*                                                                         *)
(* Scripts, witness elements and stack elements are byte strings           *)
(* (sequences of 0..255).  A Go slice index i is the sequence index i+1.   *)
(* Errors are the names of the txscript error codes; "nil" is no error.    *)
(***************************************************************************)
EXTENDS Integers, Sequences, FiniteSets, TLC

(***************************************************************************)
(* Program constants                                                       *)
(***************************************************************************)
payToTaprootDataSize == 32
sigOpsDelta == 50
MaxStackSize == 1000
MaxScriptElementSize == 520
MaxScriptSize == 10000
TaprootWitnessVersion == 1
TaprootAnnexTag == 80
BaseLeafVersion == 192
SignatureSize == 64
ControlBlockBaseSize == 33
ControlBlockNodeSize == 32

OP_0 == 0
OP_DATA_1 == 1
OP_DATA_32 == 32
OP_DATA_75 == 75
OP_PUSHDATA1 == 76
OP_PUSHDATA2 == 77
OP_PUSHDATA4 == 78
OP_1NEGATE == 79
OP_1 == 81
OP_16 == 96
OP_NOP == 97
OP_IF == 99
OP_NOTIF == 100
OP_VERIF == 101
OP_VERNOTIF == 102
OP_ELSE == 103
OP_ENDIF == 104
OP_TOALTSTACK == 107
OP_FROMALTSTACK == 108
OP_DROP == 117
OP_DUP == 118
\* the opcodes of streaming SHA-256
OP_SHA256INITIALIZE == 196
OP_SHA256UPDATE == OP_SHA256INITIALIZE + 1
OP_SHA256FINALIZE == OP_SHA256UPDATE + 1
\* the opcodes of 64-bit arithmetic, in the order of the opcode list
OP_ADD64 == 215
OP_CHECKSIGFROMSTACK == OP_ADD64 - 1
OP_SUB64 == OP_ADD64 + 1
OP_MUL64 == OP_SUB64 + 1
OP_DIV64 == OP_MUL64 + 1
OP_NEG64 == OP_DIV64 + 1
\* the asset opcodes: a contiguous range of opcode values
OP_INSPECTNUMASSETGROUPS == 229
OP_INSPECTASSETGROUPASSETID == 230
OP_INSPECTASSETGROUPCTRL == 231
OP_FINDASSETGROUPBYASSETID == 232
OP_INSPECTASSETGROUPMETADATAHASH == 233
OP_INSPECTASSETGROUPNUM == 234
OP_INSPECTASSETGROUP == 235
OP_INSPECTASSETGROUPSUM == 236
OP_INSPECTOUTASSETCOUNT == 237
OP_INSPECTOUTASSETAT == 238
OP_INSPECTOUTASSETLOOKUP == 239
OP_INSPECTINASSETCOUNT == 240
OP_INSPECTINASSETAT == 241
OP_INSPECTINASSETLOOKUP == 242
OP_INSPECTGROUPINTENTOUTCOUNT == OP_INSPECTINASSETLOOKUP + 1
OP_INSPECTGROUPINTENTOUT == OP_INSPECTGROUPINTENTOUTCOUNT + 1
OP_INSPECTGROUPINTENTINCOUNT == OP_INSPECTGROUPINTENTOUT + 1
OP_INSPECTGROUPINTENTIN == OP_INSPECTGROUPINTENTINCOUNT + 1

OpCondFalse == 0
OpCondTrue == 1
OpCondSkip == 2

(***************************************************************************)
(* Bounds of the model                                                     *)
(***************************************************************************)
\* the step callback of a debug engine fails at its k-th call, k <= MaxCbFail
MaxCbFail == 3

\* number of engines built and executed in a row over one signature cache
MaxRuns == 2

(***************************************************************************)
(* Byte strings                                                            *)
(***************************************************************************)
Rep(n, b) == [i \in 1..n |-> b]

Last(s) == s[Len(s)]

Front(s) == SubSeq(s, 1, Len(s) - 1)

\* s[from:] of Go (from is a 0-based offset)
Drop(s, from) == SubSeq(s, from + 1, Len(s))

\* F of the value of v, the value computed once
Let(F(_), v) == CHOOSE y \in {F(r) : r \in {v}} : TRUE

(***************************************************************************)
(* The script tokenizer                                                    *)
(***************************************************************************)
\* opcodeArray[b].length: 1 for an opcode without data, n+1 for OP_DATA_n,
\* -1, -2, -4 for OP_PUSHDATA1, 2, 4 (the width of the length prefix)
opLength(b) ==
  IF b >= OP_DATA_1 /\ b <= OP_DATA_75 THEN b + 1
  ELSE IF b = OP_PUSHDATA1 THEN -1
  ELSE IF b = OP_PUSHDATA2 THEN -2
  ELSE IF b = OP_PUSHDATA4 THEN -4
  ELSE 1

\* little-endian value of the first n bytes of s
RECURSIVE LEValue(_, _)
LEValue(s, n) == IF n = 0 THEN 0 ELSE s[1] + 256 * LEValue(Drop(s, 1), n - 1)

MakeScriptTokenizer(script) ==
  [script |-> script, offset |-> 0, op |-> -1, data |-> <<>>, err |-> "nil"]

\* ScriptTokenizer.Done
TokDone(t) == t.err # "nil" \/ t.offset >= Len(t.script)

\* ScriptTokenizer.Next: the tokenizer after the call, and whether an opcode
\* was parsed
TokNext(t) ==
  IF TokDone(t) THEN [t |-> t, ok |-> FALSE]
  ELSE
    LET b == t.script[t.offset + 1]
        n == opLength(b)
        rest == Drop(t.script, t.offset)
    IN  IF n = 1
          THEN [t |-> [t EXCEPT !.offset = @ + 1, !.op = b, !.data = <<>>],
                ok |-> TRUE]
        ELSE IF n > 1
          THEN IF Len(rest) < n
                 THEN [t |-> [t EXCEPT !.err = "ErrMalformedPush"], ok |-> FALSE]
                 ELSE [t |-> [t EXCEPT !.offset = @ + n, !.op = b,
                                       !.data = SubSeq(rest, 2, n)],
                       ok |-> TRUE]
        ELSE
          LET w == 0 - n
              body == Drop(rest, 1)
          IN  IF Len(body) < w
                THEN [t |-> [t EXCEPT !.err = "ErrMalformedPush"], ok |-> FALSE]
                ELSE
                  LET dataLen == LEValue(body, w)
                      payload == Drop(body, w)
                  IN  IF dataLen > Len(payload)
                        THEN [t |-> [t EXCEPT !.err = "ErrMalformedPush"],
                              ok |-> FALSE]
                        ELSE [t |-> [t EXCEPT !.offset = @ + 1 + w + dataLen,
                                              !.op = b,
                                              !.data = SubSeq(payload, 1, dataLen)],
                              ok |-> TRUE]

\* the tokenizer after walking the script to its end or to the first error
RECURSIVE TokWalk(_)
TokWalk(t) == Let(LAMBDA r : IF r.ok THEN TokWalk(r.t) ELSE r.t, TokNext(t))

\* checkScriptParses
checkScriptParses(script) == TokWalk(MakeScriptTokenizer(script)).err

\* number of opcodes of a script that parses
RECURSIVE CountFrom(_)
CountFrom(t) == Let(LAMBDA r : IF r.ok THEN 1 + CountFrom(r.t) ELSE 0, TokNext(t))

NumOpcodes(script) == CountFrom(MakeScriptTokenizer(script))


(***************************************************************************)
(* The stack (bottom first, the top is the last element)                   *)
(***************************************************************************)
\* asBool: a byte string is true unless every byte is zero, or every byte is
\* zero but the last, which is 0x80 (negative zero)
asBool(e) ==
  \E i \in 1..Len(e) :
     /\ e[i] # 0
     /\ \A j \in 1..(i - 1) : e[j] = 0
     /\ ~(i = Len(e) /\ e[i] = 128)

Depth(stk) == Len(stk)

Top(stk) == stk[Len(stk)]

PushByteArray(stk, e) == Append(stk, e)

(***************************************************************************)
(* The engine                                                              *)
(***************************************************************************)
\* a nil *taprootExecutionCtx
NilTaprootCtx ==
  [isNil |-> TRUE, annex |-> <<>>, codeSepPos |-> 0, tapLeafHash |-> 0,
   sigOpsBudget |-> 0, mustSucceed |-> FALSE]

\* math.MaxUint32, the all-ones uint32, written as the two's complement -1
blankCodeSepValue == -1

\* newTaprootExecutionCtx
newTaprootExecutionCtx(inputWitnessSize) ==
  [isNil |-> FALSE, annex |-> <<>>, codeSepPos |-> blankCodeSepValue,
   tapLeafHash |-> 0, sigOpsBudget |-> sigOpsDelta + inputWitnessSize,
   mustSucceed |-> FALSE]

\* isBranchExecuting
isBranchExecuting(v) ==
  IF Len(v.condStack) = 0 THEN TRUE ELSE Last(v.condStack) = OpCondTrue

\* isOpcodeAlwaysIllegal
isOpcodeAlwaysIllegal(op) == op = OP_VERIF \/ op = OP_VERNOTIF

\* isOpcodeConditional
isOpcodeConditional(op) ==
  op = OP_IF \/ op = OP_NOTIF \/ op = OP_ELSE \/ op = OP_ENDIF

\* checkMinimalDataPush
checkMinimalDataPush(op, data) ==
  LET dataLen == Len(data) IN
  IF dataLen = 0 /\ op # OP_0 THEN "ErrMinimalData"
  ELSE IF dataLen = 1 /\ data[1] >= 1 /\ data[1] <= 16
    THEN IF op # OP_1 + data[1] - 1 THEN "ErrMinimalData" ELSE "nil"
  ELSE IF dataLen = 1 /\ data[1] = 129
    THEN IF op # OP_1NEGATE THEN "ErrMinimalData" ELSE "nil"
  ELSE IF dataLen <= 75
    THEN IF op # dataLen THEN "ErrMinimalData" ELSE "nil"
  ELSE IF dataLen <= 255
    THEN IF op # OP_PUSHDATA1 THEN "ErrMinimalData" ELSE "nil"
  ELSE IF dataLen <= 65535
    THEN IF op # OP_PUSHDATA2 THEN "ErrMinimalData" ELSE "nil"
  ELSE "nil"

(***************************************************************************)
(* Opcode handlers (the opfunc of the opcode table)                        *)
(***************************************************************************)
\* popIfBool in tapscript execution: the operand of OP_IF / OP_NOTIF must be
\* empty or the single byte 1
opcodeIfLike(v, negate) ==
  IF ~isBranchExecuting(v)
    THEN [vm |-> [v EXCEPT !.condStack = Append(@, OpCondSkip)], err |-> "nil"]
  ELSE IF Depth(v.dstack) < 1
    THEN [vm |-> v, err |-> "ErrInvalidStackOperation"]
  ELSE
    LET so == Top(v.dstack)
        popped == [v EXCEPT !.dstack = Front(@)]
        minimal == Len(so) = 0 \/ (Len(so) = 1 /\ so[1] = 1)
        strict == ~v.taprootCtx.isNil
        ok == IF negate THEN ~asBool(so) ELSE asBool(so)
    IN  IF strict /\ ~minimal
          THEN [vm |-> popped, err |-> "ErrMinimalIf"]
          ELSE [vm |-> [popped EXCEPT !.condStack =
                          Append(@, IF ok THEN OpCondTrue ELSE OpCondFalse)],
                err |-> "nil"]

opcodeElse(v) ==
  IF Len(v.condStack) = 0 THEN [vm |-> v, err |-> "ErrUnbalancedConditional"]
  ELSE
    LET c == Last(v.condStack)
        n == IF c = OpCondTrue THEN OpCondFalse
             ELSE IF c = OpCondFalse THEN OpCondTrue
             ELSE c
    IN [vm |-> [v EXCEPT !.condStack = Append(Front(@), n)], err |-> "nil"]

opcodeEndif(v) ==
  IF Len(v.condStack) = 0 THEN [vm |-> v, err |-> "ErrUnbalancedConditional"]
  ELSE [vm |-> [v EXCEPT !.condStack = Front(@)], err |-> "nil"]

opcodeDrop(v) ==
  IF Depth(v.dstack) < 1 THEN [vm |-> v, err |-> "ErrInvalidStackOperation"]
  ELSE [vm |-> [v EXCEPT !.dstack = Front(@)], err |-> "nil"]

opcodeDup(v) ==
  IF Depth(v.dstack) < 1 THEN [vm |-> v, err |-> "ErrInvalidStackOperation"]
  ELSE [vm |-> [v EXCEPT !.dstack = Append(@, Top(@))], err |-> "nil"]

opcodeToAltStack(v) ==
  IF Depth(v.dstack) < 1 THEN [vm |-> v, err |-> "ErrInvalidStackOperation"]
  ELSE [vm |-> [v EXCEPT !.astack = Append(@, Top(v.dstack)),
                         !.dstack = Front(@)],
        err |-> "nil"]

opcodeFromAltStack(v) ==
  IF Depth(v.astack) < 1 THEN [vm |-> v, err |-> "ErrInvalidStackOperation"]
  ELSE [vm |-> [v EXCEPT !.dstack = Append(@, Top(v.astack)),
                         !.astack = Front(@)],
        err |-> "nil"]

(***************************************************************************)
(* Script numbers and the integers of the stack                            *)
(***************************************************************************)
maxScriptNumLen == 4

\* the little-endian bytes of the magnitude m, without a trailing zero
RECURSIVE MagBytes(_)
MagBytes(m) == IF m = 0 THEN <<>> ELSE <<m % 256>> \o MagBytes(m \div 256)

\* the magnitude bytes with the sign: the sign bit of the last byte, or one
\* more byte when that bit belongs to the magnitude
signedBytes(mag, neg) ==
  IF Last(mag) >= 128 THEN Append(mag, IF neg THEN 128 ELSE 0)
  ELSE IF neg THEN Append(Front(mag), Last(mag) + 128)
  ELSE mag

\* scriptNum.Bytes
scriptNumBytes(n) ==
  IF n = 0 THEN <<>> ELSE signedBytes(MagBytes(IF n < 0 THEN -n ELSE n), n < 0)

\* checkMinimalDataEncoding
checkMinimalDataEncoding(e) ==
  IF Len(e) = 0 THEN "nil"
  ELSE IF Last(e) % 128 = 0 /\ (Len(e) = 1 \/ e[Len(e) - 1] < 128)
    THEN "ErrMinimalData"
  ELSE "nil"

\* the value of the bytes of a script number that passed the checks
scriptNumValue(e) ==
  IF Len(e) = 0 THEN 0
  ELSE IF Last(e) >= 128
    THEN -LEValue(Append(Front(e), Last(e) - 128), Len(e))
  ELSE LEValue(e, Len(e))

\* MakeScriptNum, with the minimal encoding required
MakeScriptNum(e) ==
  IF Len(e) > maxScriptNumLen THEN [n |-> 0, err |-> "ErrNumberTooBig"]
  ELSE IF checkMinimalDataEncoding(e) # "nil"
    THEN [n |-> 0, err |-> checkMinimalDataEncoding(e)]
  ELSE [n |-> scriptNumValue(e), err |-> "nil"]

\* the element PopInt took, as a number
poppedInt(v, num) == [vm |-> [v EXCEPT !.dstack = Front(@)], n |-> num.n, err |-> num.err]

\* stack.PopInt on dstack
PopInt(v) ==
  IF Depth(v.dstack) < 1 THEN [vm |-> v, n |-> 0, err |-> "ErrInvalidStackOperation"]
  ELSE poppedInt(v, MakeScriptNum(Top(v.dstack)))

\* stack.PopByteArray on dstack
PopByteArray(v) ==
  IF Depth(v.dstack) < 1 THEN [vm |-> v, so |-> <<>>, err |-> "ErrInvalidStackOperation"]
  ELSE [vm |-> [v EXCEPT !.dstack = Front(@)], so |-> Top(v.dstack), err |-> "nil"]

\* stack.PushInt on dstack
PushInt(v, n) == [v EXCEPT !.dstack = PushByteArray(@, scriptNumBytes(n))]

\* stack.PushByteArray on dstack
PushBytes(v, e) == [v EXCEPT !.dstack = PushByteArray(@, e)]

\* an opcode that returned nil, an opcode that returned an error
Ok(v) == [vm |-> v, err |-> "nil"]

Fail(v, e) == [vm |-> v, err |-> e]

(***************************************************************************)
(* The asset packet                                                        *)
(***************************************************************************)
AssetInputTypeLocal == 1
AssetInputTypeIntent == 2
AssetOutputTypeLocal == 1
AssetOutputTypeIntent == 2

\* a uint64 is four 16-bit limbs, the least significant first
Limb == 65536

U64(l0, l1, l2, l3) == <<l0, l1, l2, l3>>

\* a + b of uint64: the carry out of the last limb is dropped
RECURSIVE addLimbs(_, _, _)
addLimbs(a, b, carry) ==
  IF Len(a) = 0 THEN <<>>
  ELSE <<(a[1] + b[1] + carry) % Limb>>
         \o addLimbs(Drop(a, 1), Drop(b, 1), (a[1] + b[1] + carry) \div Limb)

AddUint64(a, b) == addLimbs(a, b, 0)

\* binary.LittleEndian.PutUint64
RECURSIVE PutUint64(_)
PutUint64(u) ==
  IF Len(u) = 0 THEN <<>>
  ELSE <<u[1] % 256, u[1] \div 256>> \o PutUint64(Drop(u, 1))

\* uint16(n) of an int64 n
Uint16(n) == n % Limb

\* a nil *AssetPacket, a nil *AssetID
NilAssetPacket ==
  [isNil |-> TRUE, Groups |-> <<>>, InputAssets |-> <<>>, OutputAssets |-> <<>>]

NilAssetID == [isNil |-> TRUE, Txid |-> <<>>, Gidx |-> 0]

AssetID(txid, gidx) == [isNil |-> FALSE, Txid |-> txid, Gidx |-> gidx]

\* m[key] of a Go map of slices: the nil slice when the key is absent
MapGet(m, key) == IF key \in DOMAIN m THEN m[key] ELSE <<>>

\* checkAssetPacket taking a nil packet for a packet
checkAssetPacket_NoCheck(v) == "nil"

\* checkAssetPacket
checkAssetPacket(v) ==
  IF v.assetPacket.isNil THEN "ErrInvalidIndex" ELSE "nil"

\* checkGroupIndex
checkGroupIndex(v, k) ==
  IF k < 0 \/ k >= Len(v.assetPacket.Groups) THEN "ErrInvalidIndex" ELSE "nil"

\* pushAssetID
pushAssetID(v, id) == PushInt(PushBytes(v, id.Txid), id.Gidx)

\* pushLE64
pushLE64(v, u) == PushBytes(v, PutUint64(u))

\* popAssetID after its two pops
assetIDPopped(p, gidx) ==
  IF p.err # "nil" THEN [vm |-> p.vm, id |-> NilAssetID, err |-> p.err]
  ELSE IF Len(p.so) # 32
    THEN [vm |-> p.vm, id |-> NilAssetID, err |-> "ErrInvalidStackOperation"]
  ELSE [vm |-> p.vm, id |-> AssetID(p.so, Uint16(gidx)), err |-> "nil"]

\* popAssetID
popAssetID(v) ==
  Let(LAMBDA g : IF g.err # "nil" THEN [vm |-> g.vm, id |-> NilAssetID, err |-> g.err]
                 ELSE assetIDPopped(PopByteArray(g.vm), g.n),
      PopInt(v))

(***************************************************************************)
(* Asset introspection opcodes                                             *)
(***************************************************************************)
\* the index of the first group with the txid of the asset id
RECURSIVE findGroup_TxidOnly(_, _, _)
findGroup_TxidOnly(groups, id, i) ==
  IF i >= Len(groups) THEN -1
  ELSE IF groups[i + 1].AssetID.Txid = id.Txid THEN i
  ELSE findGroup_TxidOnly(groups, id, i + 1)

\* the index of the first group with the asset id, -1 when there is none
RECURSIVE findGroup(_, _, _)
findGroup(groups, id, i) ==
  IF i >= Len(groups) THEN -1
  ELSE IF groups[i + 1].AssetID.Txid = id.Txid /\ groups[i + 1].AssetID.Gidx = id.Gidx
    THEN i
  ELSE findGroup(groups, id, i + 1)

\* the index of the last entry with the asset id
RECURSIVE findEntry_Last(_, _, _)
findEntry_Last(entries, id, i) ==
  IF i >= Len(entries) THEN -1
  ELSE IF findEntry_Last(entries, id, i + 1) # -1 THEN findEntry_Last(entries, id, i + 1)
  ELSE IF entries[i + 1].AssetID.Txid = id.Txid /\ entries[i + 1].AssetID.Gidx = id.Gidx
    THEN i
  ELSE -1

\* the index in entries of the first entry with the asset id, -1 when there
\* is none
RECURSIVE findEntry(_, _, _)
findEntry(entries, id, i) ==
  IF i >= Len(entries) THEN -1
  ELSE IF entries[i + 1].AssetID.Txid = id.Txid /\ entries[i + 1].AssetID.Gidx = id.Gidx
    THEN i
  ELSE findEntry(entries, id, i + 1)

\* the sum of the amounts, as the loop of uint64 additions computes it
RECURSIVE sumAmounts(_, _)
sumAmounts(items, acc) ==
  IF Len(items) = 0 THEN acc
  ELSE sumAmounts(Drop(items, 1), AddUint64(acc, items[1].Amount))

\* the items, whatever their type
ofType_Any(items, type) == items

\* the items of the given type, in their order
RECURSIVE ofType(_, _)
ofType(items, type) ==
  IF Len(items) = 0 THEN <<>>
  ELSE IF items[1].Type = type THEN <<items[1]>> \o ofType(Drop(items, 1), type)
  ELSE ofType(Drop(items, 1), type)

\* the group with index k of the packet of the engine
Group(v, k) == v.assetPacket.Groups[k + 1]

\* OP_INSPECTNUMASSETGROUPS
opcodeInspectNumAssetGroups(v) ==
  IF checkAssetPacket(v) # "nil" THEN Fail(v, checkAssetPacket(v))
  ELSE Ok(PushInt(v, Len(v.assetPacket.Groups)))

\* the pop of the group index of an opcode that looks at the index before it
\* pops it
popGroupIndex_Unpopped(v) ==
  Let(LAMBDA k : IF k.err # "nil" THEN k
                 ELSE IF checkGroupIndex(k.vm, k.n) # "nil"
                   THEN [vm |-> v, n |-> k.n, err |-> checkGroupIndex(k.vm, k.n)]
                 ELSE k,
      PopInt(v))

\* the pop of the group index k of an opcode, and checkGroupIndex of it
popGroupIndex(v) ==
  Let(LAMBDA k : IF k.err # "nil" THEN k
                 ELSE [vm |-> k.vm, n |-> k.n, err |-> checkGroupIndex(k.vm, k.n)],
      PopInt(v))

\* OP_INSPECTASSETGROUPASSETID
opcodeInspectAssetGroupAssetID(v) ==
  IF checkAssetPacket(v) # "nil" THEN Fail(v, checkAssetPacket(v))
  ELSE Let(LAMBDA k : IF k.err # "nil" THEN Fail(k.vm, k.err)
                      ELSE Ok(pushAssetID(k.vm, Group(k.vm, k.n).AssetID)),
           popGroupIndex(v))

\* OP_INSPECTASSETGROUPCTRL
opcodeInspectAssetGroupCtrl_GidxFirst(v) ==
  IF checkAssetPacket(v) # "nil" THEN Fail(v, checkAssetPacket(v))
  ELSE Let(LAMBDA k : IF k.err # "nil" THEN Fail(k.vm, k.err)
                      ELSE IF Group(k.vm, k.n).Control.isNil THEN Ok(PushInt(k.vm, -1))
                      ELSE Ok(PushBytes(PushInt(k.vm, Group(k.vm, k.n).Control.Gidx),
                                        Group(k.vm, k.n).Control.Txid)),
           popGroupIndex(v))

opcodeInspectAssetGroupCtrl(v) ==
  IF checkAssetPacket(v) # "nil" THEN Fail(v, checkAssetPacket(v))
  ELSE Let(LAMBDA k : IF k.err # "nil" THEN Fail(k.vm, k.err)
                      ELSE IF Group(k.vm, k.n).Control.isNil THEN Ok(PushInt(k.vm, -1))
                      ELSE Ok(pushAssetID(k.vm, Group(k.vm, k.n).Control)),
           popGroupIndex(v))

\* OP_FINDASSETGROUPBYASSETID
opcodeFindAssetGroupByAssetID(v) ==
  IF checkAssetPacket(v) # "nil" THEN Fail(v, checkAssetPacket(v))
  ELSE Let(LAMBDA p : IF p.err # "nil" THEN Fail(p.vm, p.err)
                      ELSE Ok(PushInt(p.vm, findGroup(p.vm.assetPacket.Groups, p.id, 0))),
           popAssetID(v))

\* OP_INSPECTASSETGROUPMETADATAHASH
opcodeInspectAssetGroupMetadataHash(v) ==
  IF checkAssetPacket(v) # "nil" THEN Fail(v, checkAssetPacket(v))
  ELSE Let(LAMBDA k : IF k.err # "nil" THEN Fail(k.vm, k.err)
                      ELSE Ok(PushBytes(k.vm, Group(k.vm, k.n).MetadataHash)),
           popGroupIndex(v))

\* the switch of OP_INSPECTASSETGROUPNUM
groupNum(w, n, source) ==
  IF source = 0 THEN Ok(PushInt(w, Len(Group(w, n).Inputs)))
  ELSE IF source = 1 THEN Ok(PushInt(w, Len(Group(w, n).Outputs)))
  ELSE IF source = 2
    THEN Ok(PushInt(PushInt(w, Len(Group(w, n).Inputs)), Len(Group(w, n).Outputs)))
  ELSE Fail(w, "ErrInvalidIndex")

\* OP_INSPECTASSETGROUPNUM
opcodeInspectAssetGroupNum(v) ==
  IF checkAssetPacket(v) # "nil" THEN Fail(v, checkAssetPacket(v))
  ELSE Let(LAMBDA s : IF s.err # "nil" THEN Fail(s.vm, s.err)
                      ELSE Let(LAMBDA k : IF k.err # "nil" THEN Fail(k.vm, k.err)
                      ELSE groupNum(k.vm, k.n, s.n),
                               popGroupIndex(s.vm)),
           PopInt(v))

\* the pushes of OP_INSPECTASSETGROUP for an input, an Intent input pushed
\* as a Local one
pushInput_AsLocal(w, inp) ==
  pushLE64(PushInt(PushInt(w, inp.Type), inp.InputIndex), inp.Amount)

\* the pushes of OP_INSPECTASSETGROUP for an input
pushInput(w, inp) ==
  pushLE64(IF inp.Type = AssetInputTypeLocal
             THEN PushInt(PushInt(w, inp.Type), inp.InputIndex)
             ELSE PushInt(PushBytes(PushInt(w, inp.Type), inp.Txid), inp.OutputIndex),
           inp.Amount)

\* the pushes of OP_INSPECTASSETGROUP for an output
pushOutput(w, out) ==
  pushLE64(PushInt(PushInt(w, out.Type), out.OutputIndex), out.Amount)

\* the switch of OP_INSPECTASSETGROUP
groupItem(w, n, j, source) ==
  IF source = 0
    THEN IF j < 0 \/ j >= Len(Group(w, n).Inputs) THEN Fail(w, "ErrInvalidIndex")
         ELSE Ok(pushInput(w, Group(w, n).Inputs[j + 1]))
  ELSE IF source = 1
    THEN IF j < 0 \/ j >= Len(Group(w, n).Outputs) THEN Fail(w, "ErrInvalidIndex")
         ELSE Ok(pushOutput(w, Group(w, n).Outputs[j + 1]))
  ELSE Fail(w, "ErrInvalidIndex")

\* OP_INSPECTASSETGROUP
opcodeInspectAssetGroup(v) ==
  IF checkAssetPacket(v) # "nil" THEN Fail(v, checkAssetPacket(v))
  ELSE Let(LAMBDA s : IF s.err # "nil" THEN Fail(s.vm, s.err)
             ELSE Let(LAMBDA j : IF j.err # "nil" THEN Fail(j.vm, j.err)
                        ELSE Let(LAMBDA k : IF k.err # "nil" THEN Fail(k.vm, k.err)
                      ELSE groupItem(k.vm, k.n, j.n, s.n),
                                 popGroupIndex(j.vm)),
                      PopInt(s.vm)),
           PopInt(v))

\* the switch of OP_INSPECTASSETGROUPSUM with the sources 0 and 1 exchanged
groupSum_Exchanged(w, n, source) ==
  IF source = 1 THEN Ok(pushLE64(w, sumAmounts(Group(w, n).Inputs, U64(0, 0, 0, 0))))
  ELSE IF source = 0 THEN Ok(pushLE64(w, sumAmounts(Group(w, n).Outputs, U64(0, 0, 0, 0))))
  ELSE IF source = 2
    THEN Ok(pushLE64(pushLE64(w, sumAmounts(Group(w, n).Inputs, U64(0, 0, 0, 0))),
                     sumAmounts(Group(w, n).Outputs, U64(0, 0, 0, 0))))
  ELSE Fail(w, "ErrInvalidIndex")

\* the switch of OP_INSPECTASSETGROUPSUM
groupSum(w, n, source) ==
  IF source = 0 THEN Ok(pushLE64(w, sumAmounts(Group(w, n).Inputs, U64(0, 0, 0, 0))))
  ELSE IF source = 1 THEN Ok(pushLE64(w, sumAmounts(Group(w, n).Outputs, U64(0, 0, 0, 0))))
  ELSE IF source = 2
    THEN Ok(pushLE64(pushLE64(w, sumAmounts(Group(w, n).Inputs, U64(0, 0, 0, 0))),
                     sumAmounts(Group(w, n).Outputs, U64(0, 0, 0, 0))))
  ELSE Fail(w, "ErrInvalidIndex")

\* OP_INSPECTASSETGROUPSUM
opcodeInspectAssetGroupSum(v) ==
  IF checkAssetPacket(v) # "nil" THEN Fail(v, checkAssetPacket(v))
  ELSE Let(LAMBDA s : IF s.err # "nil" THEN Fail(s.vm, s.err)
                      ELSE Let(LAMBDA k : IF k.err # "nil" THEN Fail(k.vm, k.err)
                      ELSE groupSum(k.vm, k.n, s.n),
                               popGroupIndex(s.vm)),
           PopInt(v))

\* uint32(n) of an int64 n, as two 16-bit limbs, the least significant first
Uint32(n) == <<n % Limb, (n \div Limb) % Limb>>

\* OP_INSPECTOUTASSETCOUNT and OP_INSPECTINASSETCOUNT over their map
assetCount(v, assets) ==
  Let(LAMBDA o : IF o.err # "nil" THEN Fail(o.vm, o.err)
                 ELSE Ok(PushInt(o.vm, Len(MapGet(assets, Uint32(o.n))))),
      PopInt(v))

\* the entry with index t of the entries
entryAt(w, entries, t) ==
  IF t < 0 \/ t >= Len(entries) THEN Fail(w, "ErrInvalidIndex")
  ELSE Ok(pushLE64(pushAssetID(w, entries[t + 1].AssetID), entries[t + 1].Amount))

\* OP_INSPECTOUTASSETAT and OP_INSPECTINASSETAT over their map
assetAt(v, assets) ==
  Let(LAMBDA t : IF t.err # "nil" THEN Fail(t.vm, t.err)
        ELSE Let(LAMBDA o : IF o.err # "nil" THEN Fail(o.vm, o.err)
                            ELSE entryAt(o.vm, MapGet(assets, Uint32(o.n)), t.n),
                 PopInt(t.vm)),
      PopInt(v))

\* the amount of the entry with the asset id, -1 when there is none
entryLookup(w, entries, i) ==
  IF i < 0 THEN Ok(PushInt(w, -1)) ELSE Ok(pushLE64(w, entries[i + 1].Amount))

\* OP_INSPECTOUTASSETLOOKUP and OP_INSPECTINASSETLOOKUP over their map
assetLookup(v, assets) ==
  Let(LAMBDA p : IF p.err # "nil" THEN Fail(p.vm, p.err)
        ELSE Let(LAMBDA o : IF o.err # "nil" THEN Fail(o.vm, o.err)
                   ELSE entryLookup(o.vm, MapGet(assets, Uint32(o.n)),
                                    findEntry(MapGet(assets, Uint32(o.n)), p.id, 0)),
                 PopInt(p.vm)),
      popAssetID(v))

\* OP_INSPECTOUTASSETCOUNT
opcodeInspectOutAssetCount(v) ==
  IF checkAssetPacket(v) # "nil" THEN Fail(v, checkAssetPacket(v))
  ELSE assetCount(v, v.assetPacket.OutputAssets)

\* OP_INSPECTOUTASSETAT
opcodeInspectOutAssetAt(v) ==
  IF checkAssetPacket(v) # "nil" THEN Fail(v, checkAssetPacket(v))
  ELSE assetAt(v, v.assetPacket.OutputAssets)

\* OP_INSPECTOUTASSETLOOKUP
opcodeInspectOutAssetLookup(v) ==
  IF checkAssetPacket(v) # "nil" THEN Fail(v, checkAssetPacket(v))
  ELSE assetLookup(v, v.assetPacket.OutputAssets)

\* OP_INSPECTINASSETCOUNT
opcodeInspectInAssetCount(v) ==
  IF checkAssetPacket(v) # "nil" THEN Fail(v, checkAssetPacket(v))
  ELSE assetCount(v, v.assetPacket.InputAssets)

\* OP_INSPECTINASSETAT
opcodeInspectInAssetAt(v) ==
  IF checkAssetPacket(v) # "nil" THEN Fail(v, checkAssetPacket(v))
  ELSE assetAt(v, v.assetPacket.InputAssets)

\* OP_INSPECTINASSETLOOKUP
opcodeInspectInAssetLookup(v) ==
  IF checkAssetPacket(v) # "nil" THEN Fail(v, checkAssetPacket(v))
  ELSE assetLookup(v, v.assetPacket.InputAssets)

\* OP_INSPECTGROUPINTENTOUTCOUNT
opcodeInspectGroupIntentOutCount(v) ==
  IF checkAssetPacket(v) # "nil" THEN Fail(v, checkAssetPacket(v))
  ELSE Let(LAMBDA k : IF k.err # "nil" THEN Fail(k.vm, k.err)
                      ELSE Ok(PushInt(k.vm, Len(ofType(Group(k.vm, k.n).Outputs,
                                                       AssetOutputTypeIntent)))),
           popGroupIndex(v))

\* the pushes of OP_INSPECTGROUPINTENTOUT for the intent output with index j
intentOut(w, outs, j) ==
  IF j < 0 \/ j >= Len(outs) THEN Fail(w, "ErrInvalidIndex")
  ELSE Ok(pushLE64(PushInt(w, outs[j + 1].OutputIndex), outs[j + 1].Amount))

\* OP_INSPECTGROUPINTENTOUT
opcodeInspectGroupIntentOut(v) ==
  IF checkAssetPacket(v) # "nil" THEN Fail(v, checkAssetPacket(v))
  ELSE Let(LAMBDA j : IF j.err # "nil" THEN Fail(j.vm, j.err)
             ELSE Let(LAMBDA k : IF k.err # "nil" THEN Fail(k.vm, k.err)
                      ELSE intentOut(k.vm, ofType(Group(k.vm, k.n).Outputs,
                                                  AssetOutputTypeIntent), j.n),
                      popGroupIndex(j.vm)),
           PopInt(v))

\* OP_INSPECTGROUPINTENTINCOUNT
opcodeInspectGroupIntentInCount(v) ==
  IF checkAssetPacket(v) # "nil" THEN Fail(v, checkAssetPacket(v))
  ELSE Let(LAMBDA k : IF k.err # "nil" THEN Fail(k.vm, k.err)
                      ELSE Ok(PushInt(k.vm, Len(ofType(Group(k.vm, k.n).Inputs,
                                                       AssetInputTypeIntent)))),
           popGroupIndex(v))

\* the pushes of OP_INSPECTGROUPINTENTIN for the intent input with index j
intentIn(w, inps, j) ==
  IF j < 0 \/ j >= Len(inps) THEN Fail(w, "ErrInvalidIndex")
  ELSE Ok(pushLE64(PushInt(PushBytes(w, inps[j + 1].Txid), inps[j + 1].OutputIndex),
                   inps[j + 1].Amount))

\* OP_INSPECTGROUPINTENTIN
opcodeInspectGroupIntentIn(v) ==
  IF checkAssetPacket(v) # "nil" THEN Fail(v, checkAssetPacket(v))
  ELSE Let(LAMBDA j : IF j.err # "nil" THEN Fail(j.vm, j.err)
             ELSE Let(LAMBDA k : IF k.err # "nil" THEN Fail(k.vm, k.err)
                      ELSE intentIn(k.vm, ofType(Group(k.vm, k.n).Inputs,
                                                 AssetInputTypeIntent), j.n),
                      popGroupIndex(j.vm)),
           PopInt(v))

(***************************************************************************)
(* 64-bit arithmetic: the operands and the results are 8 bytes, little     *)
(* endian, two's complement.                                               *)
(***************************************************************************)
le64Len == 8

\* columns of base-256 digits with a carry in, brought back to bytes
RECURSIVE propagate(_, _, _)
propagate(cols, i, carry) ==
  IF i > Len(cols) THEN <<>>
  ELSE <<(cols[i] + carry) % 256>> \o propagate(cols, i + 1, (cols[i] + carry) \div 256)

isNegative64(a) == a[le64Len] >= 128

\* a + b modulo 2^64
wrapAdd64(a, b) == propagate([i \in 1..le64Len |-> a[i] + b[i]], 1, 0)

\* a - b modulo 2^64
wrapSub64(a, b) == propagate([i \in 1..le64Len |-> a[i] + (255 - b[i])], 1, 1)

\* the operand extended with its sign to 128 bits
signExtend(a) == a \o Rep(le64Len, IF isNegative64(a) THEN 255 ELSE 0)

\* the digits of x times the digits of y that meet in column k, from digit i on
RECURSIVE column(_, _, _, _)
column(x, y, k, i) ==
  IF i > k THEN 0 ELSE x[i] * y[k + 1 - i] + column(x, y, k, i + 1)

\* the product of two 128-bit values modulo 2^128
wrapMul128(x, y) ==
  propagate([k \in 1..(2 * le64Len) |-> column(x, y, k, 1)], 1, 0)

\* the low and the high half of a 128-bit value
low64(p) == SubSeq(p, 1, le64Len)

high64(p) == SubSeq(p, le64Len + 1, 2 * le64Len)

\* the operands of a binary opcode, b on top of a; each is 8 bytes
popOperands64(v) ==
  IF Depth(v.dstack) < 2
    THEN [vm |-> v, a |-> <<>>, b |-> <<>>, err |-> "ErrInvalidStackOperation"]
  ELSE IF Len(Top(v.dstack)) # le64Len \/ Len(Top(Front(v.dstack))) # le64Len
    THEN [vm |-> v, a |-> <<>>, b |-> <<>>, err |-> "ErrInvalidStackOperation"]
  ELSE [vm |-> [v EXCEPT !.dstack = Front(Front(@))],
        a |-> Top(Front(v.dstack)), b |-> Top(v.dstack), err |-> "nil"]

\* the result and the flag 1, or the operands restored and the flag 0
pushResult64_Swapped(v, operands, r, overflow) ==
  IF overflow
    THEN [v EXCEPT !.dstack = v.dstack \o [i \in 1..Len(operands) |-> operands[Len(operands) + 1 - i]] \o << <<>> >>]
    ELSE [v EXCEPT !.dstack = v.dstack \o << r, <<1>> >>]

pushResult64(v, operands, r, overflow) ==
  IF overflow
    THEN [v EXCEPT !.dstack = v.dstack \o operands \o << <<>> >>]
    ELSE [v EXCEPT !.dstack = v.dstack \o << r, <<1>> >>]

opcodeAdd64(v) ==
  Let(LAMBDA o :
        IF o.err # "nil" THEN Fail(v, o.err)
        ELSE Let(LAMBDA r :
                   Ok(pushResult64(o.vm, <<o.a, o.b>>, r,
                                   /\ isNegative64(o.a) = isNegative64(o.b)
                                   /\ isNegative64(r) # isNegative64(o.a))),
                 wrapAdd64(o.a, o.b)),
      popOperands64(v))

opcodeSub64(v) ==
  Let(LAMBDA o :
        IF o.err # "nil" THEN Fail(v, o.err)
        ELSE Let(LAMBDA r :
                   Ok(pushResult64(o.vm, <<o.a, o.b>>, r,
                                   /\ isNegative64(o.a) # isNegative64(o.b)
                                   /\ isNegative64(r) # isNegative64(o.a))),
                 wrapSub64(o.a, o.b)),
      popOperands64(v))

opcodeMul64(v) ==
  Let(LAMBDA o :
        IF o.err # "nil" THEN Fail(v, o.err)
        ELSE Let(LAMBDA p :
                   Ok(pushResult64(o.vm, <<o.a, o.b>>, low64(p),
                                   high64(p) # high64(signExtend(low64(p))))),
                 wrapMul128(signExtend(o.a), signExtend(o.b))),
      popOperands64(v))

opcodeNeg64(v) ==
  IF Depth(v.dstack) < 1 THEN Fail(v, "ErrInvalidStackOperation")
  ELSE IF Len(Top(v.dstack)) # le64Len THEN Fail(v, "ErrInvalidStackOperation")
  ELSE Let(LAMBDA r :
             Ok(pushResult64([v EXCEPT !.dstack = Front(@)], <<Top(v.dstack)>>, r,
                             isNegative64(Top(v.dstack)) /\ r = Top(v.dstack))),
           wrapSub64(Rep(le64Len, 0), Top(v.dstack)))

(***************************************************************************)
(* Streaming SHA-256.  The hash keeps its structure: 64-byte blocks, the   *)
(* padding with the bit length, a chaining value of 32 bytes.  The         *)
(* compression function is a stand-in that mixes every byte of the block,  *)
(* with its position, into the chaining value.                             *)
(***************************************************************************)
\* the digest and the chaining value are 32 bytes, a block is 64
DigestSize == 32

BlockSize == 2 * DigestSize

\* the initial chaining value
sha256IV == SubSeq([i \in 1..DigestSize |-> (103 + 37 * i) % 256], 1, DigestSize)

\* the chaining value after one block
compress(h, block) ==
  SubSeq([i \in 1..DigestSize |->
            (3 * h[i] + h[(i % DigestSize) + 1] + 5 * block[2 * i - 1]
               + 7 * block[2 * i] + 11 * block[i] + 13 * block[BlockSize + 1 - i] + i) % 256],
         1, DigestSize)

\* the chaining value after the whole blocks of data
RECURSIVE compressAll(_, _)
compressAll(h, data) ==
  IF Len(data) < BlockSize THEN h
  ELSE compressAll(compress(h, SubSeq(data, 1, BlockSize)),
                   SubSeq(data, BlockSize + 1, Len(data)))

\* the bytes of data after its whole blocks
remainder(data) == SubSeq(data, Len(data) - (Len(data) % BlockSize) + 1, Len(data))

\* the 8 bytes of a length, big endian and little endian
BE64(n) == <<0, 0, 0, 0, 0, (n \div 65536) % 256, (n \div 256) % 256, n % 256>>

LE64(n) == <<n % 256, (n \div 256) % 256, (n \div 65536) % 256, 0, 0, 0, 0, 0>>

\* the padding of a message of n bytes: 0x80, zeros up to 8 bytes before a
\* block boundary, the length in bits
padding(n) ==
  <<128>> \o Rep((2 * BlockSize - 9 - (n % BlockSize)) % BlockSize, 0) \o BE64(8 * n)

\* sha256.Sum256
Sum256(data) == compressAll(sha256IV, data \o padding(Len(data)))

\* the hash in progress: chaining value, bytes not yet in a whole block,
\* number of bytes written
sha256New == [h |-> sha256IV, x |-> <<>>, len |-> 0]

sha256Write(d, p) ==
  [h |-> compressAll(d.h, d.x \o p), x |-> remainder(d.x \o p), len |-> d.len + Len(p)]

sha256Sum(d) == compressAll(d.h, d.x \o padding(d.len))

\* the context on the stack: the chaining value, the bytes not yet in a
\* whole block, the number of bytes written
marshalCtx_Midstate(d) == d.h \o LE64(d.len)

marshalCtx(d) == d.h \o d.x \o LE64(d.len)

unmarshalCtx(e) ==
  [h |-> SubSeq(e, 1, DigestSize),
   x |-> SubSeq(e, DigestSize + 1, Len(e) - le64Len),
   len |-> LEValue(SubSeq(e, Len(e) - le64Len + 1, Len(e)), 3)]

validCtx(e) ==
  /\ Len(e) >= DigestSize + le64Len /\ Len(e) < DigestSize + le64Len + BlockSize
  /\ SubSeq(e, Len(e) - le64Len + 4, Len(e)) = Rep(le64Len - 3, 0)
  /\ unmarshalCtx(e).len % BlockSize = Len(unmarshalCtx(e).x)

opcodeSha256Initialize(v) ==
  Let(LAMBDA p : IF p.err # "nil" THEN Fail(v, p.err)
                 ELSE Ok(PushBytes(p.vm, marshalCtx(sha256Write(sha256New, p.so)))),
      PopByteArray(v))

\* the data on top of the context
popCtxAndData(v) ==
  IF Depth(v.dstack) < 2
    THEN [vm |-> v, d |-> sha256New, p |-> <<>>, err |-> "ErrInvalidStackOperation"]
  ELSE IF ~validCtx(Top(Front(v.dstack)))
    THEN [vm |-> v, d |-> sha256New, p |-> <<>>, err |-> "ErrInvalidSha256Context"]
  ELSE [vm |-> [v EXCEPT !.dstack = Front(Front(@))],
        d |-> unmarshalCtx(Top(Front(v.dstack))), p |-> Top(v.dstack), err |-> "nil"]

opcodeSha256Update(v) ==
  Let(LAMBDA o : IF o.err # "nil" THEN Fail(v, o.err)
                 ELSE Ok(PushBytes(o.vm, marshalCtx(sha256Write(o.d, o.p)))),
      popCtxAndData(v))

opcodeSha256Finalize(v) ==
  Let(LAMBDA o : IF o.err # "nil" THEN Fail(v, o.err)
                 ELSE Ok(PushBytes(o.vm, sha256Sum(sha256Write(o.d, o.p)))),
      popCtxAndData(v))

\* schnorr.Signature.Verify
SchnorrVerify(sig, sigHash, pk) == sig[1] = (pk[1] + sigHash) % 251

\* the signature a key makes over a digest
SchnorrSign(pk, sigHash) == Rep(SignatureSize, (pk[1] + sigHash) % 251)

\* tallysigOp, without the subtraction
tallysigOp_Free(t) ==
  [ctx |-> t, err |-> IF t.sigOpsBudget < 0 THEN "ErrTaprootMaxSigOps" ELSE "nil"]

\* tallysigOp: the budget after the subtraction, and the error
tallysigOp(t) ==
  [ctx |-> [t EXCEPT !.sigOpsBudget = @ - sigOpsDelta],
   err |-> IF t.sigOpsBudget - sigOpsDelta < 0 THEN "ErrTaprootMaxSigOps" ELSE "nil"]

\* the signature check of OP_CHECKSIGFROMSTACK: the message is the digest
checkSigFromStack(sig, msg, pk) ==
  /\ Len(sig) = SignatureSize /\ Len(pk) = 32 /\ Len(msg) > 0
  /\ SchnorrVerify(sig, msg[1], pk)

\* the engine after the tally of a signature check, when it has a taproot
\* context
tallied(v) ==
  IF v.taprootCtx.isNil THEN Ok(v)
  ELSE [vm |-> [v EXCEPT !.taprootCtx = tallysigOp(v.taprootCtx).ctx],
        err |-> tallysigOp(v.taprootCtx).err]

\* OP_CHECKSIGFROMSTACK: (sig, msg, pubkey), the pubkey on top
opcodeCheckSigFromStack(v) ==
  IF Depth(v.dstack) < 3 THEN Fail(v, "ErrInvalidStackOperation")
  ELSE Let(LAMBDA r :
             IF r.err # "nil" THEN r
             ELSE Ok(PushBytes(r.vm,
                       IF checkSigFromStack(Top(Front(Front(v.dstack))),
                                            Top(Front(v.dstack)), Top(v.dstack))
                         THEN <<1>> ELSE <<>>)),
           tallied([v EXCEPT !.dstack = Front(Front(Front(@)))]))

\* the opfunc of the asset introspection opcodes
assetOpfunc(v, op) ==
  IF op = OP_INSPECTNUMASSETGROUPS THEN opcodeInspectNumAssetGroups(v)
  ELSE IF op = OP_INSPECTASSETGROUPASSETID THEN opcodeInspectAssetGroupAssetID(v)
  ELSE IF op = OP_INSPECTASSETGROUPCTRL THEN opcodeInspectAssetGroupCtrl(v)
  ELSE IF op = OP_FINDASSETGROUPBYASSETID THEN opcodeFindAssetGroupByAssetID(v)
  ELSE IF op = OP_INSPECTASSETGROUPMETADATAHASH THEN opcodeInspectAssetGroupMetadataHash(v)
  ELSE IF op = OP_INSPECTASSETGROUPNUM THEN opcodeInspectAssetGroupNum(v)
  ELSE IF op = OP_INSPECTASSETGROUP THEN opcodeInspectAssetGroup(v)
  ELSE IF op = OP_INSPECTASSETGROUPSUM THEN opcodeInspectAssetGroupSum(v)
  ELSE IF op = OP_INSPECTOUTASSETCOUNT THEN opcodeInspectOutAssetCount(v)
  ELSE IF op = OP_INSPECTOUTASSETAT THEN opcodeInspectOutAssetAt(v)
  ELSE IF op = OP_INSPECTOUTASSETLOOKUP THEN opcodeInspectOutAssetLookup(v)
  ELSE IF op = OP_INSPECTINASSETCOUNT THEN opcodeInspectInAssetCount(v)
  ELSE IF op = OP_INSPECTINASSETAT THEN opcodeInspectInAssetAt(v)
  ELSE IF op = OP_INSPECTINASSETLOOKUP THEN opcodeInspectInAssetLookup(v)
  ELSE IF op = OP_INSPECTGROUPINTENTOUTCOUNT THEN opcodeInspectGroupIntentOutCount(v)
  ELSE IF op = OP_INSPECTGROUPINTENTOUT THEN opcodeInspectGroupIntentOut(v)
  ELSE IF op = OP_INSPECTGROUPINTENTINCOUNT THEN opcodeInspectGroupIntentInCount(v)
  ELSE opcodeInspectGroupIntentIn(v)

\* the dispatch of the opcode table, for the opcodes of the model
opfunc(v, op, data) ==
  IF op <= OP_PUSHDATA4
    THEN [vm |-> [v EXCEPT !.dstack = PushByteArray(@, data)], err |-> "nil"]
  ELSE IF op = OP_1NEGATE
    THEN [vm |-> [v EXCEPT !.dstack = PushByteArray(@, <<129>>)], err |-> "nil"]
  ELSE IF op >= OP_1 /\ op <= OP_16
    THEN [vm |-> [v EXCEPT !.dstack = PushByteArray(@, <<op - (OP_1 - 1)>>)],
          err |-> "nil"]
  ELSE IF op = OP_NOP THEN [vm |-> v, err |-> "nil"]
  ELSE IF op = OP_IF THEN opcodeIfLike(v, FALSE)
  ELSE IF op = OP_NOTIF THEN opcodeIfLike(v, TRUE)
  ELSE IF op = OP_ELSE THEN opcodeElse(v)
  ELSE IF op = OP_ENDIF THEN opcodeEndif(v)
  ELSE IF op = OP_TOALTSTACK THEN opcodeToAltStack(v)
  ELSE IF op = OP_FROMALTSTACK THEN opcodeFromAltStack(v)
  ELSE IF op = OP_DROP THEN opcodeDrop(v)
  ELSE IF op = OP_DUP THEN opcodeDup(v)
  ELSE IF op = OP_SHA256INITIALIZE THEN opcodeSha256Initialize(v)
  ELSE IF op = OP_SHA256UPDATE THEN opcodeSha256Update(v)
  ELSE IF op = OP_SHA256FINALIZE THEN opcodeSha256Finalize(v)
  ELSE IF op = OP_CHECKSIGFROMSTACK THEN opcodeCheckSigFromStack(v)
  ELSE IF op = OP_ADD64 THEN opcodeAdd64(v)
  ELSE IF op = OP_SUB64 THEN opcodeSub64(v)
  ELSE IF op = OP_MUL64 THEN opcodeMul64(v)
  ELSE IF op = OP_NEG64 THEN opcodeNeg64(v)
  ELSE IF op >= OP_INSPECTNUMASSETGROUPS /\ op <= OP_INSPECTGROUPINTENTIN
    THEN assetOpfunc(v, op)
  ELSE [vm |-> v, err |-> "ErrReservedOpcode"]

\* executeOpcode
executeOpcode_NoSkip(v, op, data) ==
  IF isOpcodeAlwaysIllegal(op) THEN [vm |-> v, err |-> "ErrReservedOpcode"]
  ELSE IF Len(data) > MaxScriptElementSize
    THEN [vm |-> v, err |-> "ErrElementTooBig"]
  ELSE IF ~isBranchExecuting(v) /\ ~isOpcodeConditional(op)
          /\ ~(op >= OP_INSPECTNUMASSETGROUPS /\ op <= OP_INSPECTGROUPINTENTIN)
    THEN [vm |-> v, err |-> "nil"]
  ELSE IF isBranchExecuting(v) /\ op <= OP_PUSHDATA4
          /\ checkMinimalDataPush(op, data) # "nil"
    THEN [vm |-> v, err |-> checkMinimalDataPush(op, data)]
  ELSE opfunc(v, op, data)

\* executeOpcode skipping the conditional opcodes too
executeOpcode_CondSkipped(v, op, data) ==
  IF isOpcodeAlwaysIllegal(op) THEN [vm |-> v, err |-> "ErrReservedOpcode"]
  ELSE IF Len(data) > MaxScriptElementSize
    THEN [vm |-> v, err |-> "ErrElementTooBig"]
  ELSE IF ~isBranchExecuting(v)
    THEN [vm |-> v, err |-> "nil"]
  ELSE IF isBranchExecuting(v) /\ op <= OP_PUSHDATA4
          /\ checkMinimalDataPush(op, data) # "nil"
    THEN [vm |-> v, err |-> checkMinimalDataPush(op, data)]
  ELSE opfunc(v, op, data)

\* executeOpcode skipping the opcodes of a branch that is not executing before
\* any check
executeOpcode_SkipFirst(v, op, data) ==
  IF ~isBranchExecuting(v) /\ ~isOpcodeConditional(op)
    THEN [vm |-> v, err |-> "nil"]
  ELSE IF isOpcodeAlwaysIllegal(op) THEN [vm |-> v, err |-> "ErrReservedOpcode"]
  ELSE IF Len(data) > MaxScriptElementSize
    THEN [vm |-> v, err |-> "ErrElementTooBig"]
  ELSE IF isBranchExecuting(v) /\ op <= OP_PUSHDATA4
          /\ checkMinimalDataPush(op, data) # "nil"
    THEN [vm |-> v, err |-> checkMinimalDataPush(op, data)]
  ELSE opfunc(v, op, data)

executeOpcode(v, op, data) ==
  IF isOpcodeAlwaysIllegal(op) THEN [vm |-> v, err |-> "ErrReservedOpcode"]
  ELSE IF Len(data) > MaxScriptElementSize
    THEN [vm |-> v, err |-> "ErrElementTooBig"]
  ELSE IF ~isBranchExecuting(v) /\ ~isOpcodeConditional(op)
    THEN [vm |-> v, err |-> "nil"]
  ELSE IF isBranchExecuting(v) /\ op <= OP_PUSHDATA4
          /\ checkMinimalDataPush(op, data) # "nil"
    THEN [vm |-> v, err |-> checkMinimalDataPush(op, data)]
  ELSE opfunc(v, op, data)


(***************************************************************************)
(* Library contracts: BIP-340 keys and signatures, the taproot sighash,    *)
(* the control block and the taproot leaf commitment.  The curve and the   *)
(* hashes are replaced by arithmetic on single bytes; the length and       *)
(* format rules are the library's.                                         *)
(***************************************************************************)
\* schnorr.ParsePubKey: 32 bytes that are the x coordinate of a curve point
ParsePubKeyOK(pk) == Len(pk) = 32 /\ pk[1] # 255

\* schnorr.ParseSignature: 64 bytes with r and s in range
ParseSignatureOK(sig) == Len(sig) = SignatureSize /\ sig[1] # 255

\* the sighash types CalcTaprootSignatureHash accepts
ValidSigHashTypes == {0, 1, 2, 3, 129, 130, 131}

\* txscript.CalcTaprootSignatureHash: the digest, or -1 for an error
CalcTaprootSignatureHash(hashType, tx, idx) ==
  IF hashType \notin ValidSigHashTypes THEN -1
  ELSE (tx.Version + 16 * hashType + 5 * idx + 3 * Len(tx.TxIn)) % 256

\* parseTaprootSigAndPubKey taking a signature of 65 bytes whatever its last
\* byte is
parseTaprootSigAndPubKey_ZeroType(pkBytes, rawSig) ==
  IF ~ParsePubKeyOK(pkBytes)
    THEN [err |-> "ErrPubKeyParse", sig |-> <<>>, hashType |-> 0]
  ELSE IF Len(rawSig) = SignatureSize
    THEN IF ~ParseSignatureOK(rawSig)
           THEN [err |-> "ErrSigParse", sig |-> <<>>, hashType |-> 0]
           ELSE [err |-> "nil", sig |-> rawSig, hashType |-> 0]
  ELSE IF Len(rawSig) = SignatureSize + 1
    THEN IF ~ParseSignatureOK(SubSeq(rawSig, 1, SignatureSize))
           THEN [err |-> "ErrSigParse", sig |-> <<>>, hashType |-> 0]
           ELSE [err |-> "nil", sig |-> SubSeq(rawSig, 1, SignatureSize),
                 hashType |-> rawSig[65]]
  ELSE [err |-> "ErrInvalidTaprootSigLen", sig |-> <<>>, hashType |-> 0]

\* parseTaprootSigAndPubKey
parseTaprootSigAndPubKey(pkBytes, rawSig) ==
  IF ~ParsePubKeyOK(pkBytes)
    THEN [err |-> "ErrPubKeyParse", sig |-> <<>>, hashType |-> 0]
  ELSE IF Len(rawSig) = SignatureSize
    THEN IF ~ParseSignatureOK(rawSig)
           THEN [err |-> "ErrSigParse", sig |-> <<>>, hashType |-> 0]
           ELSE [err |-> "nil", sig |-> rawSig, hashType |-> 0]
  ELSE IF Len(rawSig) = SignatureSize + 1 /\ rawSig[65] # 0
    THEN IF ~ParseSignatureOK(SubSeq(rawSig, 1, SignatureSize))
           THEN [err |-> "ErrSigParse", sig |-> <<>>, hashType |-> 0]
           ELSE [err |-> "nil", sig |-> SubSeq(rawSig, 1, SignatureSize),
                 hashType |-> rawSig[65]]
  ELSE [err |-> "ErrInvalidTaprootSigLen", sig |-> <<>>, hashType |-> 0]

\* verifySig caching the triple whatever the verification said
verifySig_CacheAll(sig, fullSigBytes, pkBytes, sigHash, hasCache, cache) ==
  IF hasCache /\ <<sigHash, fullSigBytes, pkBytes>> \in cache
    THEN [valid |-> TRUE, cache |-> cache]
  ELSE [valid |-> SchnorrVerify(sig, sigHash, pkBytes),
        cache |-> IF hasCache
                    THEN cache \cup {<<sigHash, fullSigBytes, pkBytes>>}
                    ELSE cache]

\* taprootSigVerifier.verifySig; hasCache: the engine was given a cache;
\* cache: the set of (digest, signature, key) triples it holds
verifySig(sig, fullSigBytes, pkBytes, sigHash, hasCache, cache) ==
  IF hasCache /\ <<sigHash, fullSigBytes, pkBytes>> \in cache
    THEN [valid |-> TRUE, cache |-> cache]
  ELSE IF SchnorrVerify(sig, sigHash, pkBytes)
    THEN [valid |-> TRUE,
          cache |-> IF hasCache
                      THEN cache \cup {<<sigHash, fullSigBytes, pkBytes>>}
                      ELSE cache]
  ELSE [valid |-> FALSE, cache |-> cache]

\* taprootSigVerifier.Verify, the digest computed (-1: the sighash failed)
verifyDigest(sig, fullSigBytes, pkBytes, sigHash, hasCache, cache) ==
  IF sigHash = -1 THEN [valid |-> FALSE, cache |-> cache]
  ELSE verifySig(sig, fullSigBytes, pkBytes, sigHash, hasCache, cache)

taprootVerify(sig, hashType, fullSigBytes, pkBytes, tx, idx, hasCache, cache) ==
  verifyDigest(sig, fullSigBytes, pkBytes,
               CalcTaprootSignatureHash(hashType, tx, idx), hasCache, cache)

\* the error VerifyTaprootKeySpend makes of the verifier's result
keySpendOutcome(r) ==
  [err |-> IF r.valid THEN "nil" ELSE "ErrTaprootSigInvalid", cache |-> r.cache]

\* VerifyTaprootKeySpend once the key and the signature are parsed
keySpendParsed(p, witnessProgram, rawSig, tx, idx, hasCache, cache) ==
  IF p.err # "nil" THEN [err |-> p.err, cache |-> cache]
  ELSE Let(keySpendOutcome,
           taprootVerify(p.sig, p.hashType, rawSig, witnessProgram, tx, idx,
                         hasCache, cache))

\* txscript.VerifyTaprootKeySpend: newTaprootSigVerifier, then Verify
VerifyTaprootKeySpend(witnessProgram, rawSig, tx, idx, hasCache, cache) ==
  Let(LAMBDA p : keySpendParsed(p, witnessProgram, rawSig, tx, idx, hasCache, cache),
      parseTaprootSigAndPubKey(witnessProgram, rawSig))

\* txscript.ParseControlBlock: the error, the leaf version, the parity bit
ParseControlBlock(cb) ==
  IF Len(cb) < ControlBlockBaseSize
    THEN [err |-> "ErrControlBlockTooSmall", LeafVersion |-> 0, parity |-> 0]
  ELSE IF (Len(cb) - ControlBlockBaseSize) % ControlBlockNodeSize # 0
    THEN [err |-> "ErrControlBlockInvalidLength", LeafVersion |-> 0, parity |-> 0]
  ELSE IF ~ParsePubKeyOK(SubSeq(cb, 2, 33))
    THEN [err |-> "ErrPubKeyParse", LeafVersion |-> 0, parity |-> 0]
  ELSE [err |-> "nil", LeafVersion |-> cb[1] - (cb[1] % 2), parity |-> cb[1] % 2]

\* TapLeaf.TapHash of a leaf of the given version
TapHash(leafVersion, script) ==
  (leafVersion + 7 * Len(script)
     + (IF Len(script) > 0 THEN script[1] + 3 * Last(script) ELSE 0)) % 256

\* the x coordinate of the output key the control block commits the script to
TaprootOutputKey(cb, script) ==
  LET nodes == (Len(cb) - ControlBlockBaseSize) \div ControlBlockNodeSize
      root == TapHash(cb[1] - (cb[1] % 2), script)
              + (IF nodes > 0 THEN cb[ControlBlockBaseSize + 1] ELSE 0)
  IN  (cb[2] + root) % 251

\* txscript.VerifyTaprootLeafCommitment
VerifyTaprootLeafCommitment(cb, witnessProgram, script) ==
  LET out == TaprootOutputKey(cb, script) IN
  IF witnessProgram # Rep(payToTaprootDataSize, out)
    THEN "ErrTaprootMerkleProofInvalid"
  ELSE IF out % 2 # cb[1] % 2 THEN "ErrTaprootOutputKeyParityMismatch"
  ELSE "nil"

\* wire.VarIntSerializeSize
VarIntSerializeSize(n) == IF n < 253 THEN 1 ELSE IF n <= 65535 THEN 3 ELSE 5

\* sum of f over lo..hi
RECURSIVE SumOver(_, _, _)
SumOver(f, lo, hi) ==
  IF lo > hi THEN 0
  ELSE IF lo = hi THEN f[lo]
  ELSE Let(LAMBDA mid : SumOver(f, lo, mid) + SumOver(f, mid + 1, hi),
           (lo + hi) \div 2)

\* wire.TxWitness.SerializeSize
SerializeSize(witness) ==
  VarIntSerializeSize(Len(witness))
  + Let(LAMBDA f : SumOver(f, 1, Len(witness)),
        [i \in 1..Len(witness) |->
           VarIntSerializeSize(Len(witness[i])) + Len(witness[i])])

\* isAnnexedWitness
isAnnexedWitness(witness) ==
  IF Len(witness) < 2 THEN FALSE
  ELSE Len(Last(witness)) > 0 /\ Last(witness)[1] = TaprootAnnexTag


(***************************************************************************)
(* Witness program verification                                            *)
(***************************************************************************)
\* the first of two errors
firstErr(e1, e2) == IF e1 # "nil" THEN e1 ELSE e2

\* isWitnessVersionActive; a nil witnessProgram is the empty sequence (an
\* extracted program has 2 to 40 bytes)
isWitnessVersionActive(v, version) ==
  Len(v.witnessProgram) # 0 /\ v.witnessVersion = version

\* the check of the initial stack without the element sizes
checkInitialStack_NoElementSize(v) ==
  IF Depth(v.dstack) > MaxStackSize THEN "ErrStackOverflow" ELSE "nil"

\* the check of the starting stack that ends verifyWitnessProgram
checkInitialStack(v) ==
  IF Depth(v.dstack) > MaxStackSize THEN "ErrStackOverflow"
  ELSE IF \E i \in 1..Len(v.dstack) : Len(v.dstack[i]) > MaxScriptElementSize
    THEN "ErrElementTooBig"
  ELSE "nil"

\* the scriptpath checks without the leaf commitment
scriptPathErr_NoCommitment(controlBlock, witness, witnessProgram) ==
  IF controlBlock.err # "nil" THEN controlBlock.err
  ELSE IF controlBlock.LeafVersion # BaseLeafVersion
    THEN "ErrDiscourageUpgradeableTaprootVersion"
  ELSE checkScriptParses(witness[Len(witness) - 1])

\* the scriptpath checks with every leaf version allowed
scriptPathErr_AnyVersion(controlBlock, witness, witnessProgram) ==
  IF controlBlock.err # "nil" THEN controlBlock.err
  ELSE firstErr(
         VerifyTaprootLeafCommitment(Last(witness), witnessProgram,
                                     witness[Len(witness) - 1]),
         checkScriptParses(witness[Len(witness) - 1]))

\* the checks of the scriptpath branch, in order: the parsed control block,
\* the leaf commitment, the leaf version, the parse of the witness script
scriptPathErr(controlBlock, witness, witnessProgram) ==
  IF controlBlock.err # "nil" THEN controlBlock.err
  ELSE firstErr(
         VerifyTaprootLeafCommitment(Last(witness), witnessProgram,
                                     witness[Len(witness) - 1]),
         IF controlBlock.LeafVersion # BaseLeafVersion
           THEN "ErrDiscourageUpgradeableTaprootVersion"
           ELSE checkScriptParses(witness[Len(witness) - 1]))

\* the leaf hash saved, the witness script appended, the stack set
enterLeaf_Replaced(v, witness) ==
  [v EXCEPT
     !.taprootCtx.tapLeafHash = TapHash(BaseLeafVersion, witness[Len(witness) - 1]),
     !.scripts = [@ EXCEPT ![2] = witness[Len(witness) - 1]],
     !.dstack = SubSeq(witness, 1, Len(witness) - 2)]

\* the witness elements pushed over the data stack the pubkey script left
enterLeaf_Pushed(v, witness) ==
  [v EXCEPT
     !.taprootCtx.tapLeafHash = TapHash(BaseLeafVersion, witness[Len(witness) - 1]),
     !.scripts = Append(@, witness[Len(witness) - 1]),
     !.dstack = @ \o SubSeq(witness, 1, Len(witness) - 2)]

enterLeaf(v, witness) ==
  [v EXCEPT
     !.taprootCtx.tapLeafHash = TapHash(BaseLeafVersion, witness[Len(witness) - 1]),
     !.scripts = Append(@, witness[Len(witness) - 1]),
     !.dstack = SubSeq(witness, 1, Len(witness) - 2)]

leafEntered(w, cache) == [vm |-> w, err |-> checkInitialStack(w), cache |-> cache]

scriptPathChecked(v, witness, e, cache) ==
  IF e # "nil" THEN [vm |-> v, err |-> e, cache |-> cache]
  ELSE Let(LAMBDA w : leafEntered(w, cache), enterLeaf(v, witness))

\* the scriptpath branch of verifyWitnessProgram, the annex already removed
verifyScriptPath(v, witness, cache) ==
  Let(LAMBDA e : scriptPathChecked(v, witness, e, cache),
      scriptPathErr(ParseControlBlock(Last(witness)), witness, v.witnessProgram))

\* the keyspend branch leaving must_succeed unset
keySpendChecked_NoFlag(v, r) == [vm |-> v, err |-> r.err, cache |-> r.cache]

keySpendChecked(v, r) ==
  IF r.err # "nil" THEN [vm |-> v, err |-> r.err, cache |-> r.cache]
  ELSE [vm |-> [v EXCEPT !.taprootCtx.mustSucceed = TRUE], err |-> "nil",
        cache |-> r.cache]

\* the keyspend branch of verifyWitnessProgram
verifyKeySpend(v, witness, cache) ==
  Let(LAMBDA r : keySpendChecked(v, r),
      VerifyTaprootKeySpend(v.witnessProgram, witness[1], v.tx, v.txIdx,
                            v.hasSigCache, cache))

\* the taproot context set, with the annex
withTaprootCtx(v, witness) ==
  [v EXCEPT !.taprootCtx =
     [newTaprootExecutionCtx(SerializeSize(witness)) EXCEPT
        !.annex = IF isAnnexedWitness(witness) THEN Last(witness) ELSE <<>>]]

\* the switch of verifyWitnessProgram, the annex removed
verifySpend(v, witness, cache) ==
  IF Len(witness) = 1
    THEN verifyKeySpend(v, witness, cache)
    ELSE verifyScriptPath(v, witness, cache)

\* verifyWitnessProgram
verifyWitnessProgram(v, witness, cache) ==
  IF ~isWitnessVersionActive(v, TaprootWitnessVersion)
     \/ Len(v.witnessProgram) # payToTaprootDataSize
    THEN [vm |-> v, err |-> "ErrOnlyTaproot", cache |-> cache]
  ELSE IF Len(witness) = 0
    THEN [vm |-> v, err |-> "ErrWitnessProgramEmpty", cache |-> cache]
  ELSE Let(LAMBDA w :
             Let(LAMBDA stripped : verifySpend(w, stripped, cache),
                 IF isAnnexedWitness(witness) THEN Front(witness) ELSE witness),
           withTaprootCtx(v, witness))

(***************************************************************************)
(* CheckErrorCondition, Step                                               *)
(***************************************************************************)
\* CheckErrorCondition without the clean-stack rule of the final script
CheckErrorCondition_NoCleanStack(v, finalScript) ==
  IF ~v.taprootCtx.isNil /\ v.taprootCtx.mustSucceed
    THEN [vm |-> v, err |-> "nil"]
  ELSE IF v.scriptIdx < Len(v.scripts)
    THEN [vm |-> v, err |-> "ErrScriptUnfinished"]
  ELSE IF Depth(v.dstack) < 1
    THEN [vm |-> v, err |-> "ErrEmptyStack"]
  ELSE [vm |-> [v EXCEPT !.dstack = Front(@)],
        err |-> IF asBool(Top(v.dstack)) THEN "nil" ELSE "ErrEvalFalse"]

\* CheckErrorCondition with the clean-stack rule applied to non-empty stacks
\* only, an empty stack reported as such
CheckErrorCondition_EmptyFirst(v, finalScript) ==
  IF ~v.taprootCtx.isNil /\ v.taprootCtx.mustSucceed
    THEN [vm |-> v, err |-> "nil"]
  ELSE IF v.scriptIdx < Len(v.scripts)
    THEN [vm |-> v, err |-> "ErrScriptUnfinished"]
  ELSE IF Depth(v.dstack) < 1
    THEN [vm |-> v, err |-> "ErrEmptyStack"]
  ELSE IF finalScript /\ Depth(v.dstack) # 1
    THEN [vm |-> v, err |-> "ErrCleanStack"]
  ELSE [vm |-> [v EXCEPT !.dstack = Front(@)],
        err |-> IF asBool(Top(v.dstack)) THEN "nil" ELSE "ErrEvalFalse"]

\* CheckErrorCondition: the engine after the call (the top is popped as a
\* boolean) and the error
CheckErrorCondition(v, finalScript) ==
  IF ~v.taprootCtx.isNil /\ v.taprootCtx.mustSucceed
    THEN [vm |-> v, err |-> "nil"]
  ELSE IF v.scriptIdx < Len(v.scripts)
    THEN [vm |-> v, err |-> "ErrScriptUnfinished"]
  ELSE IF finalScript /\ Depth(v.dstack) # 1
    THEN [vm |-> v, err |-> "ErrCleanStack"]
  ELSE IF Depth(v.dstack) < 1
    THEN [vm |-> v, err |-> "ErrEmptyStack"]
  ELSE [vm |-> [v EXCEPT !.dstack = Front(@)],
        err |-> IF asBool(Top(v.dstack)) THEN "nil" ELSE "ErrEvalFalse"]

\* checkValidPC
checkValidPC(v) ==
  IF v.scriptIdx >= Len(v.scripts) THEN "ErrInvalidProgramCounter" ELSE "nil"

\* Step at a script boundary: the new tokenizer, or done
stepEnterScript(v, cache) ==
  IF v.scriptIdx >= Len(v.scripts)
    THEN [vm |-> v, done |-> TRUE, err |-> "nil", cache |-> cache]
    ELSE [vm |-> [v EXCEPT !.tokenizer =
                    MakeScriptTokenizer(v.scripts[v.scriptIdx + 1])],
          done |-> FALSE, err |-> "nil", cache |-> cache]

\* Step at a script boundary: an empty script is skipped
skipEmptyScript(v) ==
  [v EXCEPT !.scriptIdx =
              IF @ < Len(v.scripts) /\ Len(v.scripts[@ + 1]) = 0 THEN @ + 1 ELSE @,
            !.lastCodeSep = 0]

\* Step at a script boundary, the witness program verified
stepVerified(r) ==
  IF r.err # "nil"
    THEN [vm |-> r.vm, done |-> FALSE, err |-> r.err, cache |-> r.cache]
    ELSE stepEnterScript(skipEmptyScript(r.vm), r.cache)

\* the script index moved, the alt stack kept
nextScript_AltKept(v) == [v EXCEPT !.opcodeIdx = 0, !.scriptIdx = @ + 1]

\* Step at a script boundary: the alt stack dropped, the script index moved
nextScript(v) == [v EXCEPT !.astack = <<>>, !.opcodeIdx = 0, !.scriptIdx = @ + 1]

\* the end of a script letting a conditional straddle two scripts
stepScriptBoundary_Straddling(v, cache) ==
  Let(stepVerified,
      IF v.scriptIdx = 1 /\ Len(v.witnessProgram) # 0
        THEN verifyWitnessProgram(nextScript(v), v.tx.TxIn[v.txIdx + 1].Witness,
                                  cache)
        ELSE [vm |-> nextScript(v), err |-> "nil", cache |-> cache])

\* the end of Step once the tokenizer is done with the current script: the
\* conditional stack, the alt stack, the next script
stepScriptBoundary(v, cache) ==
  IF Len(v.condStack) # 0
    THEN [vm |-> v, done |-> FALSE, err |-> "ErrUnbalancedConditional",
          cache |-> cache]
  ELSE Let(stepVerified,
           IF v.scriptIdx = 1 /\ Len(v.witnessProgram) # 0
             THEN verifyWitnessProgram(nextScript(v), v.tx.TxIn[v.txIdx + 1].Witness,
                                       cache)
             ELSE [vm |-> nextScript(v), err |-> "nil", cache |-> cache])

\* Step after the opcode: the opcode index, the end of the script
stepAdvance(v, cache) ==
  IF TokDone(v.tokenizer)
    THEN stepScriptBoundary(v, cache)
    ELSE [vm |-> v, done |-> FALSE, err |-> "nil", cache |-> cache]

\* the end of Step without the bound on the combined stack depth
stepExecuted_NoStackBound(e, cache) ==
  IF e.err # "nil"
    THEN [vm |-> e.vm, done |-> TRUE, err |-> e.err, cache |-> cache]
  ELSE stepAdvance([e.vm EXCEPT !.opcodeIdx = @ + 1], cache)

\* Step, the opcode executed: its error, the combined stack size
stepExecuted(e, cache) ==
  IF e.err # "nil"
    THEN [vm |-> e.vm, done |-> TRUE, err |-> e.err, cache |-> cache]
  ELSE IF Depth(e.vm.dstack) + Depth(e.vm.astack) > MaxStackSize
    THEN [vm |-> e.vm, done |-> FALSE, err |-> "ErrStackOverflow", cache |-> cache]
  ELSE stepAdvance([e.vm EXCEPT !.opcodeIdx = @ + 1], cache)

\* Step executing the parsed opcode on an engine whose tokenizer was not
\* advanced
stepParsed_NoAdvance(v, n, cache) ==
  IF ~n.ok
    THEN [vm |-> [v EXCEPT !.tokenizer = n.t],
          done |-> n.t.err = "nil",
          err |-> IF n.t.err # "nil" THEN n.t.err ELSE "ErrInvalidProgramCounter",
          cache |-> cache]
    ELSE Let(LAMBDA e : stepExecuted(e, cache), executeOpcode(v, n.t.op, n.t.data))

\* Step, the next opcode parsed (n: the result of tokenizer.Next)
stepParsed(v, n, cache) ==
  IF ~n.ok
    THEN [vm |-> [v EXCEPT !.tokenizer = n.t],
          done |-> n.t.err = "nil",
          err |-> IF n.t.err # "nil" THEN n.t.err ELSE "ErrInvalidProgramCounter",
          cache |-> cache]
    ELSE Let(LAMBDA e : stepExecuted(e, cache),
             executeOpcode([v EXCEPT !.tokenizer = n.t], n.t.op, n.t.data))

\* Step: the engine and the signature cache after the call, done and err
Step(v, cache) ==
  IF v.scriptIdx >= Len(v.scripts)
    THEN [vm |-> v, done |-> TRUE, err |-> checkValidPC(v), cache |-> cache]
    ELSE Let(LAMBDA n : stepParsed(v, n, cache), TokNext(v.tokenizer))

(***************************************************************************)
(* NewEngine                                                               *)
(***************************************************************************)
\* txscript.IsPushOnlyScript
RECURSIVE PushOnlyFrom(_)
PushOnlyFrom(t) ==
  Let(LAMBDA r : IF ~r.ok THEN r.t.err = "nil"
                 ELSE IF r.t.op > OP_16 THEN FALSE
                 ELSE PushOnlyFrom(r.t),
      TokNext(t))

IsPushOnlyScript_Always(script) == TRUE

IsPushOnlyScript(script) == PushOnlyFrom(MakeScriptTokenizer(script))

\* txscript.IsWitnessProgram: a small integer opcode followed by one
\* canonical push of 2 to 40 bytes
IsWitnessProgram(script) ==
  /\ Len(script) >= 4
  /\ Len(script) <= 42
  /\ (script[1] = OP_0 \/ (script[1] >= OP_1 /\ script[1] <= OP_16))
  /\ script[2] = Len(script) - 2

\* txscript.ExtractWitnessProgramInfo
ExtractWitnessVersion(script) ==
  IF script[1] = OP_0 THEN 0 ELSE script[1] - (OP_1 - 1)

ExtractWitnessProgram(script) == Drop(script, 2)

\* the zero value of Engine
ZeroEngine ==
  [tx |-> [Version |-> 0, TxIn |-> <<>>], txIdx |-> 0, version |-> 0,
   hasSigCache |-> FALSE, stepCallback |-> -1,
   scripts |-> <<>>, scriptIdx |-> 0, opcodeIdx |-> 0, lastCodeSep |-> 0,
   tokenizer |-> MakeScriptTokenizer(<<>>), dstack |-> <<>>, astack |-> <<>>,
   condStack |-> <<>>, witnessVersion |-> 0, witnessProgram |-> <<>>,
   taprootCtx |-> NilTaprootCtx, assetPacket |-> NilAssetPacket,
   prevOutFetcher |-> "nil"]

\* the size and parse check NewEngine makes of a script
checkScript(script) ==
  IF Len(script) > MaxScriptSize THEN "ErrScriptTooBig" ELSE checkScriptParses(script)

\* the engine NewEngine returns when every check passed
buildEngine(a, scriptSig, isWitness) ==
  [ZeroEngine EXCEPT
     !.hasSigCache = a.hasSigCache,
     !.stepCallback = a.stepCallback,
     !.scripts = <<scriptSig, a.scriptPubKey>>,
     !.scriptIdx = IF Len(scriptSig) = 0 THEN 1 ELSE 0,
     !.witnessVersion = IF isWitness THEN ExtractWitnessVersion(a.scriptPubKey) ELSE 0,
     !.witnessProgram = IF isWitness THEN ExtractWitnessProgram(a.scriptPubKey) ELSE <<>>,
     !.tokenizer = MakeScriptTokenizer(IF Len(scriptSig) = 0 THEN a.scriptPubKey
                                       ELSE scriptSig),
     !.tx = a.tx,
     !.txIdx = a.txIdx,
     !.prevOutFetcher = "prevOutFetcher"]

\* the checks of NewEngine on a valid input index, in order
newEngineErr_WitnessIgnored(a, txIn, isWitness) ==
  IF Len(txIn.SignatureScript) = 0 /\ Len(a.scriptPubKey) = 0 THEN "ErrEvalFalse"
  ELSE IF ~IsPushOnlyScript(txIn.SignatureScript) THEN "ErrNotPushOnly"
  ELSE firstErr(
         firstErr(checkScript(txIn.SignatureScript), checkScript(a.scriptPubKey)),
         IF isWitness /\ Len(txIn.SignatureScript) # 0 THEN "ErrWitnessMalleated"
         ELSE "nil")

newEngineErr(a, txIn, isWitness) ==
  IF Len(txIn.SignatureScript) = 0 /\ Len(a.scriptPubKey) = 0 THEN "ErrEvalFalse"
  ELSE IF ~IsPushOnlyScript(txIn.SignatureScript) THEN "ErrNotPushOnly"
  ELSE firstErr(
         firstErr(checkScript(txIn.SignatureScript), checkScript(a.scriptPubKey)),
         IF isWitness /\ Len(txIn.SignatureScript) # 0 THEN "ErrWitnessMalleated"
         ELSE IF ~isWitness /\ Len(txIn.Witness) # 0 THEN "ErrWitnessUnexpected"
         ELSE "nil")

newEngineChecked(a, e) ==
  IF e # "nil" THEN [vm |-> ZeroEngine, err |-> e]
  ELSE [vm |-> buildEngine(a, a.tx.TxIn[a.txIdx + 1].SignatureScript,
                           IsWitnessProgram(a.scriptPubKey)),
        err |-> "nil"]

\* NewEngine (and NewDebugEngine, which adds the step callback): the engine
\* and the error; a.stepCallback = -1 is a nil callback
NewEngine(a) ==
  IF a.txIdx < 0 \/ a.txIdx >= Len(a.tx.TxIn)
    THEN [vm |-> ZeroEngine, err |-> "ErrInvalidIndex"]
    ELSE Let(LAMBDA e : newEngineChecked(a, e),
             newEngineErr(a, a.tx.TxIn[a.txIdx + 1], IsWitnessProgram(a.scriptPubKey)))

(***************************************************************************)
(* The spends the engine is run on                                         *)
(***************************************************************************)
PushData2(n, b) == <<OP_PUSHDATA2, n % 256, n \div 256>> \o Rep(n, b)

LeafScripts ==
  { <<>>, <<OP_1>>, <<OP_0>>, <<OP_1, OP_1>>, <<OP_DROP>>, <<OP_NOP>>, <<OP_DUP>>,
    <<OP_TOALTSTACK, OP_1>>,
    <<OP_DUP, OP_TOALTSTACK, OP_DUP>>,
    <<OP_DUP, OP_TOALTSTACK, OP_FROMALTSTACK, OP_DROP>>,
    <<OP_DUP, OP_TOALTSTACK>>,
    <<OP_IF, OP_1, OP_ELSE, OP_0, OP_ENDIF>>,
    <<OP_NOTIF, OP_1, OP_ELSE, OP_0, OP_ENDIF>>,
    <<OP_1, OP_IF>>,
    <<OP_0, OP_IF, OP_VERIF, OP_ENDIF, OP_1>>,
    <<OP_1, OP_NOTIF, OP_VERNOTIF, OP_ENDIF, OP_1>>,
    <<OP_1, OP_VERIF>>,
    <<OP_0, OP_IF, OP_1>>,
    <<OP_0, OP_IF, OP_DUP, OP_IF, OP_ELSE, OP_ENDIF, OP_ELSE, OP_DATA_1, 1, OP_ENDIF>>,
    <<OP_VERNOTIF>>,
    <<OP_0, OP_IF, OP_DROP, OP_ENDIF, OP_1>>,
    <<OP_DATA_1, 1>>,
    <<OP_DATA_1>>,
    PushData2(MaxScriptElementSize, 1),
    PushData2(MaxScriptElementSize + 1, 1),
    <<OP_0, OP_IF>> \o PushData2(MaxScriptElementSize + 1, 1) \o <<OP_ENDIF, OP_1>> }

InitialStacks ==
  { <<>>, << <<1>> >>, << <<>> >>, << <<0, 128>> >>, << <<2>> >>,
    << <<1>>, <<1>> >>,
    << Rep(MaxScriptElementSize, 1) >>,
    << Rep(MaxScriptElementSize + 1, 1) >> }

\* starting stacks at the limit of the stack size
DeepStacks ==
  { Rep(MaxStackSize - 1, <<1>>),
    Rep(MaxStackSize, <<1>>),
    Rep(MaxStackSize + 1, <<1>>),
    << Rep(MaxScriptElementSize + 1, 1) >> \o Rep(MaxStackSize, <<1>>) }

InternalKey == Rep(32, 2)

Annex == <<TaprootAnnexTag, 7>>

\* a control block of the given leaf version for the leaf script, with the
\* parity bit of the output key it commits to
ControlBlockFor(leafVersion, script) ==
  LET plain == <<leafVersion>> \o InternalKey
  IN <<leafVersion + (TaprootOutputKey(plain, script) % 2)>> \o InternalKey

ControlBlocksFor(script) ==
  { ControlBlockFor(BaseLeafVersion, script),
    ControlBlockFor(BaseLeafVersion + 2, script),
    \* the parity bit flipped
    <<2 * BaseLeafVersion + 1 - ControlBlockFor(BaseLeafVersion, script)[1]>>
       \o InternalKey,
    \* another internal key: the commitment does not verify
    <<BaseLeafVersion>> \o Rep(32, 3),
    \* too short, a bad length, an internal key that is no curve point
    <<BaseLeafVersion, 2>>,
    ControlBlockFor(BaseLeafVersion, script) \o <<1>>,
    <<BaseLeafVersion>> \o Rep(32, 255) }

\* the taproot output script committing to the leaf script
PayToTaproot(script) ==
  <<OP_1, OP_DATA_32>>
    \o Rep(32, TaprootOutputKey(ControlBlockFor(BaseLeafVersion, script), script))

KeySpendKey == Rep(32, 9)

Tx(txIn) == [Version |-> 2, TxIn |-> txIn]

In(sigScript, witness) == [SignatureScript |-> sigScript, Witness |-> witness]

Args(pkScript, txIn, txIdx, hasCache, cb) ==
  [scriptPubKey |-> pkScript, tx |-> Tx(txIn), txIdx |-> txIdx,
   hasSigCache |-> hasCache, stepCallback |-> cb]

Callbacks == (-1)..MaxCbFail

\* scriptpath spends of every leaf script over every starting stack
ScriptPathInputs ==
  { Args(PayToTaproot(l), << In(<<>>, s \o <<l, ControlBlockFor(BaseLeafVersion, l)>>) >>,
         0, TRUE, -1) : l \in LeafScripts, s \in InitialStacks }

\* scriptpath spends over deep starting stacks
DeepStackInputs ==
  { Args(PayToTaproot(l), << In(<<>>, s \o <<l, ControlBlockFor(BaseLeafVersion, l)>>) >>,
         0, TRUE, -1) :
      l \in { <<OP_1>>, <<OP_DUP>>, <<OP_DROP>>, <<OP_DUP, OP_TOALTSTACK, OP_DUP>>,
              <<OP_TOALTSTACK, OP_1, OP_1>>, <<OP_IF, OP_DUP, OP_DUP>> },
      s \in DeepStacks }
  \cup
  { Args(PayToTaproot(<<OP_1>>),
         << In(<<>>, Rep(MaxStackSize + 1, <<1>>) \o << <<OP_1>>, c >>) >>, 0, TRUE, -1) :
      c \in ControlBlocksFor(<<OP_1>>) }

\* scriptpath spends with other control blocks, an annex, a step callback, a
\* second input
ScriptPathVariants ==
  UNION {
    { Args(PayToTaproot(l), << In(<<>>, s \o <<l, c>> \o x) >>, 0, TRUE, cb) :
        s \in { <<>>, << <<1>> >> },
        c \in ControlBlocksFor(l),
        x \in { <<>>, <<Annex>> },
        cb \in Callbacks } :
    l \in { <<OP_1>>, <<OP_1, OP_1>>, <<OP_DUP, OP_TOALTSTACK, OP_DUP>> } }
  \cup
  { Args(PayToTaproot(<<OP_1>>),
         << In(<<>>, <<>>),
            In(<<>>, << <<OP_1>>, ControlBlockFor(BaseLeafVersion, <<OP_1>>) >>) >>,
         i, TRUE, -1) : i \in 0..1 }

\* the signatures tried on the keyspend path
KeySpendSigs(txIn) ==
  { SchnorrSign(KeySpendKey, CalcTaprootSignatureHash(0, Tx(txIn), 0)),
    SchnorrSign(KeySpendKey, CalcTaprootSignatureHash(1, Tx(txIn), 0)) \o <<1>>,
    SchnorrSign(KeySpendKey, CalcTaprootSignatureHash(0, Tx(txIn), 0)) \o <<0>>,
    SchnorrSign(KeySpendKey, CalcTaprootSignatureHash(0, Tx(txIn), 0)) \o <<4>>,
    Rep(SignatureSize, 77),
    Rep(SignatureSize, 255),
    <<1, 2, 3>>,
    <<>> }

KeySpendInputs ==
  { Args(<<OP_1, OP_DATA_32>> \o k, << In(<<>>, <<sig>> \o x) >>, 0, hc, cb) :
      k \in { KeySpendKey, Rep(32, 255) },
      sig \in KeySpendSigs(<< In(<<>>, <<>>) >>),
      x \in { <<>>, <<Annex>> },
      hc \in BOOLEAN,
      cb \in Callbacks }

\* pubkey scripts that are no taproot witness program
OtherPkScripts ==
  { <<OP_0, 20>> \o Rep(20, 1), <<OP_1, 20>> \o Rep(20, 1),
    <<OP_16, OP_DATA_32>> \o Rep(32, 1),
    <<OP_1>>, <<OP_0>>, <<OP_1, OP_1>>, <<OP_DROP>>, <<OP_NOP>>, <<>>,
    <<OP_1, OP_TOALTSTACK>>, <<OP_1, OP_IF>>, <<OP_DATA_1>>,
    <<OP_1, OP_IF, OP_1, OP_ENDIF>>, <<OP_16, OP_IF, OP_1, OP_ENDIF>>,
    PushData2(MaxScriptElementSize + 1, 1) }

OtherInputs ==
  { Args(pk, << In(ss, w) >>, i, TRUE, cb) :
      pk \in OtherPkScripts,
      ss \in { <<>>, <<OP_1>>, <<OP_0>>, <<OP_DUP>>, <<OP_DATA_1>> },
      w \in { <<>>, << <<1>> >> },
      i \in {0},
      cb \in {-1, 0} }
  \cup
  { Args(<<OP_1>>, << In(<<>>, <<>>) >>, i, TRUE, -1) : i \in {-1, 1} }
  \cup
  { Args(PushData2(MaxScriptSize - 3, 1), << In(<<>>, <<>>) >>, 0, TRUE, -1),
    Args(PushData2(MaxScriptSize - 2, 1), << In(<<>>, <<>>) >>, 0, TRUE, -1),
    Args(<<OP_1>>, << In(PushData2(MaxScriptSize - 2, 1), <<>>) >>, 0, TRUE, -1),
    Args(<<OP_0, 20>> \o Rep(20, 1), << In(PushData2(MaxScriptSize - 2, 1), <<>>) >>,
         0, TRUE, -1),
    Args(<<OP_0, 20>> \o Rep(20, 1), << In(PushData2(MaxScriptSize - 3, 1), <<>>) >>,
         0, TRUE, -1) }

\* a failing signature check of OP_CHECKSIGFROMSTACK, its result dropped
SigCheck == <<OP_1, OP_1, OP_1, OP_CHECKSIGFROMSTACK, OP_DROP>>

\* n signature checks in a row
SigChecks(n) == [i \in 1..(n * Len(SigCheck)) |-> SigCheck[((i - 1) % Len(SigCheck)) + 1]]

\* scripts of signature checks, some of them in a branch that does not
\* execute, and one check of a signature that verifies
SigOpsScripts ==
  { SigChecks(n) \o <<OP_1>> : n \in 1..4 }
  \cup
  { SigCheck \o <<OP_0, OP_IF>> \o SigChecks(2) \o <<OP_ENDIF>> \o SigCheck \o <<OP_1>>,
    SigCheck \o <<OP_1, OP_IF>> \o SigCheck \o <<OP_ELSE>> \o SigCheck
      \o <<OP_ENDIF>> \o SigCheck,
    <<OP_1, OP_CHECKSIGFROMSTACK>>,
    <<OP_PUSHDATA1, SignatureSize>> \o SchnorrSign(KeySpendKey, 5)
      \o <<OP_DATA_1, 5, OP_DATA_32>> \o KeySpendKey \o <<OP_CHECKSIGFROMSTACK>> }

\* spends running signature checks: scriptpath spends over witnesses of
\* several sizes, and pubkey scripts that run without a taproot context
SigOpsInputs ==
  { Args(PayToTaproot(l), << In(<<>>, s \o <<l, ControlBlockFor(BaseLeafVersion, l)>> \o x) >>,
         0, TRUE, -1) :
      l \in SigOpsScripts,
      s \in { <<>>, << Rep(sigOpsDelta - 1, 1) >>, << Rep(sigOpsDelta, 1) >>,
              << Rep(MaxScriptElementSize, 1) >> },
      x \in { <<>>, <<Annex>> } }
  \cup
  { Args(l, << In(<<>>, <<>>) >>, 0, TRUE, -1) : l \in SigOpsScripts }

\* scriptpath spends of outputs that commit to their leaf under another
\* leaf version than the base one
LeafVersionInputs ==
  { Args(<<OP_1, OP_DATA_32>> \o Rep(32, TaprootOutputKey(ControlBlockFor(lv, l), l)),
         << In(<<>>, s \o <<l, ControlBlockFor(lv, l)>> \o x) >>, 0, TRUE, cb) :
      lv \in { BaseLeafVersion + 2, BaseLeafVersion - 2, 2 },
      l \in { <<OP_1>>, <<OP_DUP>>, <<OP_1, OP_IF>>, <<OP_DATA_1>>, <<OP_VERIF>> },
      s \in { <<>>, << <<1>> >> },
      x \in { <<>>, <<Annex>> },
      cb \in { -1, 0 } }

\* a push of the largest element
BigPush == PushData2(MaxScriptElementSize, 1)

\* k pushes of the largest element
BigPushes(k) ==
  SubSeq([i \in 1..(k * Len(BigPush)) |-> BigPush[((i - 1) % Len(BigPush)) + 1]],
         1, k * Len(BigPush))

\* a script of exactly n bytes that leaves a true value: an OP_IF that does
\* not execute around pushes of the largest element and one push of the
\* bytes that remain
BigScript(n) ==
  <<OP_0, OP_IF>>
    \o BigPushes((n - 7) \div Len(BigPush))
    \o PushData2((n - 7) % Len(BigPush), 1)
    \o <<OP_ENDIF, OP_1>>

\* scriptpath spends of leaf scripts at the maximum script size and above
BigLeafInputs ==
  { Args(PayToTaproot(l), << In(<<>>, <<l, ControlBlockFor(BaseLeafVersion, l)>>) >>,
         0, TRUE, -1) :
      l \in { BigScript(MaxScriptSize), BigScript(MaxScriptSize + 1) } }

Inputs ==
  ScriptPathInputs \cup DeepStackInputs \cup ScriptPathVariants
    \cup KeySpendInputs \cup OtherInputs \cup SigOpsInputs \cup LeafVersionInputs
    \cup BigLeafInputs

(***************************************************************************)
(* The state machine: NewEngine, then Execute                              *)
(***************************************************************************)
VARIABLES
  args,       \* the arguments of NewEngine / NewDebugEngine
  vm,         \* the engine
  sigCache,   \* the signature cache the caller shares among its engines
  pc,         \* "new", "execute", "loop", "returned", "noengine"
  done,       \* Execute's done
  err,        \* the error of the last Step of Execute
  result,     \* what NewEngine (pc = "noengine") or Execute returned
  stepInfo,   \* Execute's stepInfo
  nSteps,     \* the calls of Step Execute has made
  nCb,        \* the calls of the step callback Execute has made
  outcomes    \* the results of the runs that ended before this one

vars == <<args, vm, sigCache, pc, done, err, result, stepInfo, nSteps, nCb, outcomes>>

NoStepInfo == [ScriptIndex |-> 0, OpcodeIndex |-> 0]

Init ==
  /\ args \in Inputs
  /\ vm = ZeroEngine
  /\ sigCache = {}
  /\ pc = "new"
  /\ done = FALSE
  /\ err = "nil"
  /\ result = "none"
  /\ stepInfo = NoStepInfo
  /\ nSteps = 0
  /\ nCb = 0
  /\ outcomes = <<>>

\* the step callback returns an error at its n-th call
callbackFails(v, n) == v.stepCallback > 0 /\ n = v.stepCallback

\* the caller builds the engine
engineBuilt(r) ==
  /\ vm' = r.vm
  /\ pc' = IF r.err = "nil" THEN "execute" ELSE "noengine"
  /\ result' = IF r.err = "nil" THEN "none" ELSE r.err

DoNewEngine ==
  /\ pc = "new"
  /\ \E r \in {NewEngine(args)} : engineBuilt(r)
  /\ UNCHANGED <<args, sigCache, done, err, stepInfo, nSteps, nCb, outcomes>>

\* Execute up to its loop
ExecuteBegin ==
  /\ pc = "execute"
  /\ IF vm.version # 0
       THEN /\ pc' = "returned"
            /\ result' = "nil"
            /\ UNCHANGED <<stepInfo, nCb>>
     ELSE IF vm.stepCallback # -1
       THEN /\ stepInfo' = [ScriptIndex |-> vm.scriptIdx, OpcodeIndex |-> vm.opcodeIdx]
            /\ nCb' = nCb + 1
            /\ IF callbackFails(vm, nCb + 1)
                 THEN pc' = "returned" /\ result' = "ErrCallback"
                 ELSE pc' = "loop" /\ UNCHANGED result
     ELSE /\ pc' = "loop"
          /\ UNCHANGED <<result, stepInfo, nCb>>
  /\ done' = FALSE
  /\ UNCHANGED <<args, vm, sigCache, err, nSteps, outcomes>>

\* the body of Execute's loop going on after an error of Step
stepReturned_GoOn(r) ==
  /\ vm' = r.vm
  /\ sigCache' = r.cache
  /\ err' = r.err
  /\ done' = r.done
  /\ nSteps' = nSteps + 1
  /\ UNCHANGED <<pc, result, stepInfo, nCb>>

\* the body of Execute's loop after Step returned r
stepReturned(r) ==
  /\ vm' = r.vm
  /\ sigCache' = r.cache
  /\ err' = r.err
  /\ done' = r.done
  /\ nSteps' = nSteps + 1
  /\ IF r.err # "nil"
       THEN /\ pc' = "returned"
            /\ result' = r.err
            /\ UNCHANGED <<stepInfo, nCb>>
     ELSE IF vm.stepCallback # -1
       THEN /\ stepInfo' =
                 IF r.done
                   THEN [ScriptIndex |-> stepInfo.ScriptIndex,
                         OpcodeIndex |-> stepInfo.OpcodeIndex + 1]
                   ELSE [ScriptIndex |-> r.vm.scriptIdx,
                         OpcodeIndex |-> r.vm.opcodeIdx]
            /\ nCb' = nCb + 1
            /\ IF callbackFails(vm, nCb + 1)
                 THEN pc' = "returned" /\ result' = "ErrCallback"
                 ELSE UNCHANGED <<pc, result>>
     ELSE UNCHANGED <<pc, result, stepInfo, nCb>>

\* one iteration of Execute's loop: Step, then the step callback
ExecuteLoop ==
  /\ pc = "loop"
  /\ ~done
  /\ \E r \in {Step(vm, sigCache)} : stepReturned(r)
  /\ UNCHANGED <<args, outcomes>>

terminalChecked(c) ==
  /\ vm' = c.vm
  /\ result' = c.err

\* the end of Execute: the terminal check
ExecuteReturn ==
  /\ pc = "loop"
  /\ done
  /\ \E c \in {CheckErrorCondition(vm, TRUE)} : terminalChecked(c)
  /\ pc' = "returned"
  /\ UNCHANGED <<args, sigCache, done, err, stepInfo, nSteps, nCb, outcomes>>

\* the caller validates the same input again, with a new engine over the
\* same signature cache
Rerun ==
  /\ pc \in {"returned", "noengine"}
  /\ Len(outcomes) + 1 < MaxRuns
  /\ outcomes' = Append(outcomes, result)
  /\ vm' = ZeroEngine
  /\ pc' = "new"
  /\ done' = FALSE
  /\ err' = "nil"
  /\ result' = "none"
  /\ stepInfo' = NoStepInfo
  /\ nSteps' = 0
  /\ nCb' = 0
  /\ UNCHANGED <<args, sigCache>>

Next == DoNewEngine \/ ExecuteBegin \/ ExecuteLoop \/ ExecuteReturn \/ Rerun

Spec == Init /\ [][Next]_vars

\* Execute is a plain loop: it keeps running until it returns
FairSpec == Spec /\ WF_vars(Next)

(***************************************************************************)
(* Scripts of asset introspection opcodes over asset packets: the caller   *)
(* builds the engine, sets the asset packet and the stack, then executes   *)
(***************************************************************************)
Txid(b) == Rep(32, b)

testAssetTxid == Txid(1)
testControlTxid == Txid(161)
testIntentTxid == Txid(241)
testMetadataHash == Txid(222)

Amount(n) == U64(n, 0, 0, 0)

MaxUint64 == U64(Limb - 1, Limb - 1, Limb - 1, Limb - 1)

LocalInput(i, amount) ==
  [Type |-> AssetInputTypeLocal, InputIndex |-> i, Txid |-> Txid(0),
   OutputIndex |-> 0, Amount |-> amount]

IntentInput(txid, o, amount) ==
  [Type |-> AssetInputTypeIntent, InputIndex |-> 0, Txid |-> txid,
   OutputIndex |-> o, Amount |-> amount]

Output(type, o, amount) == [Type |-> type, OutputIndex |-> o, Amount |-> amount]

AssetGroup(id, control, hash, inputs, outputs) ==
  [AssetID |-> id, Control |-> control, MetadataHash |-> hash,
   Inputs |-> inputs, Outputs |-> outputs]

Entry(id, amount) == [AssetID |-> id, Amount |-> amount]

AssetPacket(groups, inputAssets, outputAssets) ==
  [isNil |-> FALSE, Groups |-> groups, InputAssets |-> inputAssets,
   OutputAssets |-> outputAssets]

\* makeTestAssetPacket
makeTestAssetPacket ==
  AssetPacket(
    << AssetGroup(AssetID(testAssetTxid, 0), AssetID(testControlTxid, 1), testMetadataHash,
                  << LocalInput(0, Amount(1000)), IntentInput(testIntentTxid, 2, Amount(500)) >>,
                  << Output(AssetOutputTypeLocal, 0, Amount(800)),
                     Output(AssetOutputTypeIntent, 1, Amount(700)) >>),
       AssetGroup(AssetID(testControlTxid, 1), NilAssetID, Txid(0),
                  << LocalInput(1, Amount(200)) >>,
                  << Output(AssetOutputTypeLocal, 2, Amount(200)) >>) >>,
    (Uint32(0) :> << Entry(AssetID(testAssetTxid, 0), Amount(1000)) >>)
      @@ (Uint32(1) :> << Entry(AssetID(testControlTxid, 1), Amount(200)) >>),
    (Uint32(0) :> << Entry(AssetID(testAssetTxid, 0), Amount(800)) >>)
      @@ (Uint32(1) :> << Entry(AssetID(testAssetTxid, 0), Amount(700)) >>)
      @@ (Uint32(2) :> << Entry(AssetID(testControlTxid, 1), Amount(200)) >>))

\* a packet of one group with the zero asset id, whose outputs sum up to
\* 2^64 and whose inputs to 2^64 + 2^63
largeAmountsPacket ==
  AssetPacket(
    << AssetGroup(AssetID(Txid(0), 0), NilAssetID, Txid(0),
                  << LocalInput(0, U64(0, 0, 0, Limb \div 2)),
                     LocalInput(1, U64(0, 0, 0, Limb \div 2)),
                     IntentInput(testIntentTxid, 0, U64(0, 0, 0, Limb \div 2)) >>,
                  << Output(AssetOutputTypeLocal, 0, MaxUint64),
                     Output(AssetOutputTypeIntent, 1, Amount(1)) >>) >>,
    <<>>, <<>>)

\* a packet whose groups 0 and 2 have the same asset id, with a group index
\* of three bytes as a script number
\* Its group 1 has Intent items between Local ones.
\* Its maps hold several entries under one key, two of them with the same
\* asset id, and entries under the key 2^32 - 1.
twinGroupsPacket ==
  AssetPacket(
    << AssetGroup(AssetID(testAssetTxid, Limb - 1), NilAssetID, Txid(0), <<>>, <<>>),
       AssetGroup(AssetID(testAssetTxid, 128), NilAssetID, Txid(0),
                  << IntentInput(testIntentTxid, 3, Amount(11)),
                     LocalInput(0, Amount(12)),
                     IntentInput(testControlTxid, 5, Amount(13)) >>,
                  << Output(AssetOutputTypeLocal, 1, Amount(14)),
                     Output(AssetOutputTypeIntent, 2, Amount(15)),
                     Output(AssetOutputTypeLocal, 3, Amount(16)),
                     Output(AssetOutputTypeIntent, 4, Amount(17)) >>),
       AssetGroup(AssetID(testAssetTxid, Limb - 1), NilAssetID, Txid(0), <<>>,
                  << Output(AssetOutputTypeLocal, 0, Amount(7)) >>) >>,
    (Uint32(1) :> << Entry(AssetID(testControlTxid, 1), Amount(4)),
                     Entry(AssetID(testControlTxid, 1), Amount(8)) >>)
      @@ (Uint32(-1) :> << Entry(AssetID(testControlTxid, 1), Amount(2)) >>),
    (Uint32(0) :> << Entry(AssetID(testAssetTxid, 0), Amount(5)),
                     Entry(AssetID(testControlTxid, 1), Amount(6)),
                     Entry(AssetID(testAssetTxid, 0), Amount(9)) >>)
      @@ (Uint32(-1) :> << Entry(AssetID(testAssetTxid, 0), Amount(3)) >>))

\* a packet without groups
emptyPacket == AssetPacket(<<>>, <<>>, <<>>)

AssetPackets ==
  { NilAssetPacket, makeTestAssetPacket, largeAmountsPacket, twinGroupsPacket, emptyPacket }

AssetOpcodes == OP_INSPECTNUMASSETGROUPS..OP_INSPECTGROUPINTENTIN

\* scripts with the asset opcode in a branch that is not executing: of an
\* OP_IF, of an OP_NOTIF, of an OP_ELSE, of a nested OP_IF
SkippedScripts(op) ==
  { <<OP_0, OP_IF, op, OP_ENDIF, OP_1>>,
    <<OP_1, OP_NOTIF, op, OP_ELSE, OP_1, OP_ENDIF>>,
    <<OP_1, OP_IF, OP_1, OP_ELSE, op, op, OP_ENDIF>>,
    <<OP_0, OP_IF, OP_1, OP_IF, op, OP_ENDIF, OP_ENDIF, OP_1>> }

\* the scripts: one asset opcode, alone or after a push to the alternate
\* stack, and the asset id of a group looked up
AssetScripts ==
  { <<op>> : op \in AssetOpcodes }
    \cup { <<OP_1, OP_TOALTSTACK, op>> : op \in AssetOpcodes }
    \cup { <<OP_INSPECTASSETGROUPASSETID, OP_FINDASSETGROUPBYASSETID>> }

\* the group indexes and the sources the stacks hold
MaxIndex == 3

Indexes == (-1)..MaxIndex

\* the stacks the caller sets: script numbers, an asset id, a number that is
\* not minimally encoded
AssetStacks ==
  { <<>>, << <<0>> >>, << <<1, 2, 3, 4, 5>> >> }
    \cup { << scriptNumBytes(k) >> : k \in Indexes \cup {99} }
    \cup { << scriptNumBytes(k), scriptNumBytes(s) >> : k \in Indexes, s \in Indexes }
    \cup { << scriptNumBytes(99), <<0>> >>, << <<0>>, scriptNumBytes(0) >> }
    \cup { << scriptNumBytes(k), scriptNumBytes(j), scriptNumBytes(s) >> :
             k \in {0, 1, MaxIndex}, j \in {-1, 0, 1, 2}, s \in 0..2 }
    \cup { << t, scriptNumBytes(g) >> :
             t \in {testAssetTxid, testControlTxid, Rep(31, 1)},
             g \in {0, 1, 128, Limb - 1, -1, Limb} }
    \cup { << scriptNumBytes(o), t, scriptNumBytes(g) >> :
             o \in {0, 1, -1}, t \in {testAssetTxid, testControlTxid}, g \in {0, 1} }

AssetArgs(script, packet, stack) ==
  [scriptPubKey |-> script, tx |-> Tx(<< In(<<>>, <<>>) >>), txIdx |-> 0,
   hasSigCache |-> TRUE, stepCallback |-> -1, assetPacket |-> packet, stack |-> stack]

\* a scriptpath spend of a leaf script over a starting stack, with a packet
TapleafArgs(l, packet, s) ==
  [AssetArgs(PayToTaproot(l), packet, <<>>) EXCEPT
     !.tx = Tx(<< In(<<>>, s \o <<l, ControlBlockFor(BaseLeafVersion, l)>>) >>)]

AssetInputs ==
  { AssetArgs(script, packet, stack) :
      script \in AssetScripts, packet \in AssetPackets, stack \in AssetStacks }
    \cup { TapleafArgs(l, packet, s) :
             l \in { <<OP_INSPECTNUMASSETGROUPS>>, <<OP_INSPECTASSETGROUPASSETID, OP_DROP>>,
                     <<OP_INSPECTASSETGROUPSUM>> },
             packet \in AssetPackets,
             s \in { <<>>, << <<>> >>, << <<>>, <<2>> >> } }
    \cup { AssetArgs(script, packet, stack) :
             script \in UNION { SkippedScripts(op) :
                                  op \in { OP_INSPECTNUMASSETGROUPS,
                                           OP_INSPECTASSETGROUPSUM,
                                           OP_INSPECTINASSETLOOKUP } },
             packet \in AssetPackets,
             stack \in { <<>>, << <<>> >>, << <<>>, <<2>> >> } }

AssetInit ==
  /\ args \in AssetInputs
  /\ vm = ZeroEngine
  /\ sigCache = {}
  /\ pc = "new"
  /\ done = FALSE
  /\ err = "nil"
  /\ result = "none"
  /\ stepInfo = NoStepInfo
  /\ nSteps = 0
  /\ nCb = 0
  /\ outcomes = <<>>

\* the caller builds the engine and sets the asset packet of its arguments
\* (NewEngine, then SetAssetPacket)
AssetNewEngine ==
  /\ pc = "new"
  /\ \E r \in {NewEngine(args)} :
        engineBuilt([vm |-> [r.vm EXCEPT !.assetPacket = args.assetPacket], err |-> r.err])
  /\ UNCHANGED <<args, sigCache, done, err, stepInfo, nSteps, nCb, outcomes>>

\* SetStack
SetStack ==
  /\ pc = "execute"
  /\ Len(args.stack) > 0
  /\ vm.dstack # args.stack
  /\ vm' = [vm EXCEPT !.dstack = args.stack]
  /\ UNCHANGED <<args, sigCache, pc, done, err, result, stepInfo, nSteps, nCb, outcomes>>

AssetNext == AssetNewEngine \/ SetStack \/ ExecuteBegin \/ ExecuteLoop \/ ExecuteReturn

AssetSpec == AssetInit /\ [][AssetNext]_vars

(***************************************************************************)
(* The inputs of 64-bit arithmetic: one opcode on operands the caller set  *)
(* on the stack, or after the pushes of its operands.                      *)
(***************************************************************************)
\* the 8 bytes that are fill everywhere but v at byte i
OneByte(i, v, fill) == SubSeq([j \in 1..le64Len |-> IF j = i THEN v ELSE fill], 1, le64Len)

MaxInt64 == OneByte(le64Len, 127, 255)

MinInt64 == OneByte(le64Len, 128, 0)

\* 0, 1, 2, 3, 255, -1, -2, -3, 2^31, 2^32, 2^62, -2^62, the extremes and
\* their neighbours, and the two sides of the square root of 2^63
Int64s ==
  { OneByte(1, n, 0) : n \in {0, 1, 2, 3, 255} }
    \cup { OneByte(1, n, 255) : n \in {255, 254, 253} }
    \cup { OneByte(4, 128, 0), OneByte(5, 1, 0), OneByte(le64Len, 64, 0),
           OneByte(le64Len, 192, 0), MaxInt64, MinInt64,
           <<254, 255, 255, 255, 255, 255, 255, 127>>,
           <<1, 0, 0, 0, 0, 0, 0, 128>>,
           <<51, 243, 4, 181, 0, 0, 0, 0>>, <<52, 243, 4, 181, 0, 0, 0, 0>> }

Arith64Opcodes == {OP_ADD64, OP_SUB64, OP_MUL64, OP_NEG64}

\* the push of an element, as a script builder encodes it
AddData(e) ==
  IF Len(e) = 0 THEN <<OP_0>>
  ELSE IF Len(e) <= OP_DATA_75 THEN <<Len(e)>> \o e
  ELSE <<OP_PUSHDATA1, Len(e)>> \o e

Arith64Scripts ==
  { <<op>> : op \in Arith64Opcodes }
    \cup { AddData(a) \o AddData(b) \o <<op>> :
             a \in {MaxInt64, MinInt64, OneByte(1, 1, 0)},
             b \in {OneByte(1, 1, 0), OneByte(1, 2, 0), MinInt64},
             op \in Arith64Opcodes }

\* the stacks the caller sets: one or two operands, under an element or
\* not, and operands that are not 8 bytes
Arith64Stacks ==
  { <<>>, << <<1>> >>, << <<1>>, MaxInt64 >>, << MaxInt64, <<1>> >> }
    \cup { <<a>> : a \in Int64s }
    \cup { <<a, b>> : a \in Int64s, b \in Int64s }
    \cup { << <<7>>, a, b >> : a \in {MaxInt64, MinInt64}, b \in Int64s }

Arith64Inputs ==
  { AssetArgs(script, NilAssetPacket, stack) :
      script \in Arith64Scripts, stack \in Arith64Stacks }

Arith64Init ==
  /\ args \in Arith64Inputs
  /\ vm = ZeroEngine
  /\ sigCache = {}
  /\ pc = "new"
  /\ done = FALSE
  /\ err = "nil"
  /\ result = "none"
  /\ stepInfo = NoStepInfo
  /\ nSteps = 0
  /\ nCb = 0
  /\ outcomes = <<>>

Arith64Spec == Arith64Init /\ [][AssetNext]_vars

(***************************************************************************)
(* The inputs of streaming SHA-256: a message cut in three parts that the  *)
(* script pushes; and one opcode on a stack the caller set, with contexts  *)
(* that are not well formed.                                               *)
(***************************************************************************)
\* the message of n bytes
Message(n) == SubSeq([i \in 1..n |-> 32 + ((7 * i) % 89)], 1, n)

MessageLens == {0, 1, 12, 55, 56, 63, 64, 65, 119, 120, 127, 128, 129, 200}

\* where a message of n bytes is cut
Cuts(n) == {0, 1, 5, 55, 56, 63, 64, 65, 119, 120, 128, n - 1, n} \cap 0..n

Splits ==
  { << SubSeq(Message(n), 1, a), SubSeq(Message(n), a + 1, b),
       SubSeq(Message(n), b + 1, n) >> :
      <<n, a, b>> \in { t \in MessageLens \X (0..200) \X (0..200) :
                          /\ t[2] \in Cuts(t[1]) /\ t[3] \in Cuts(t[1])
                          /\ t[2] <= t[3] } }

\* the script of the caller's arguments, and the parts it hashes
Sha256Args(script, stack, parts) ==
  AssetArgs(script, NilAssetPacket, stack) @@ [parts |-> parts]

Sha256Inputs ==
  { Sha256Args(AddData(p[1]) \o <<OP_SHA256INITIALIZE>> \o AddData(p[2])
                 \o <<OP_SHA256UPDATE>> \o AddData(p[3]) \o <<OP_SHA256FINALIZE>>,
               <<>>, p) : p \in Splits }
    \cup { Sha256Args(<<op>>, stack, <<>>) :
             op \in {OP_SHA256INITIALIZE, OP_SHA256UPDATE, OP_SHA256FINALIZE},
             stack \in { <<>>, << Message(5) >>, << Message(5), Message(5) >>,
                         << Message(39), Message(5) >>,
                         << sha256IV \o LE64(0), Message(5) >>,
                         << sha256IV \o LE64(5), Message(5) >>,
                         << sha256IV \o Message(5) \o LE64(5), Message(5) >>,
                         << sha256IV \o Message(5) \o LE64(6), Message(5) >> } }

Sha256Init ==
  /\ args \in Sha256Inputs
  /\ vm = ZeroEngine
  /\ sigCache = {}
  /\ pc = "new"
  /\ done = FALSE
  /\ err = "nil"
  /\ result = "none"
  /\ stepInfo = NoStepInfo
  /\ nSteps = 0
  /\ nCb = 0
  /\ outcomes = <<>>

Sha256Spec == Sha256Init /\ [][AssetNext]_vars


(***************************************************************************)
(* Properties                                                              *)
(***************************************************************************)
\* the spend was accepted by the keyspend must_succeed flag
MustSucceed(v) == ~v.taprootCtx.isNil /\ v.taprootCtx.mustSucceed

\* the witness of the validated input, the annex removed
StrippedWitness ==
  IF isAnnexedWitness(args.tx.TxIn[args.txIdx + 1].Witness)
    THEN Front(args.tx.TxIn[args.txIdx + 1].Witness)
    ELSE args.tx.TxIn[args.txIdx + 1].Witness

\* the pubkey script is a taproot witness program: version 1, 32 bytes
IsPayToTaproot(script) ==
  /\ IsWitnessProgram(script)
  /\ ExtractWitnessVersion(script) = TaprootWitnessVersion
  /\ Len(ExtractWitnessProgram(script)) = payToTaprootDataSize

\* an engine exists and Execute has started
Executing == pc \in {"loop", "returned"}

\* the transition is the terminal check of Execute returning
TerminalCheck == pc = "loop" /\ done /\ pc' = "returned"

\* C1: when Execute returns success without the must_succeed flag, it does so
\* from its terminal check, which saw the script index past the last script
\* and exactly one element on dstack, a true one; a terminal check that sees
\* another number of elements, or one false element, returns an error.
C1_CleanStackOnAccept ==
  [][ (pc # "returned" /\ pc' = "returned" /\ ~MustSucceed(vm)) =>
        /\ result' = "nil" =>
             /\ pc = "loop" /\ done
             /\ vm.scriptIdx >= Len(vm.scripts)
             /\ Depth(vm.dstack) = 1
             /\ asBool(Top(vm.dstack))
        /\ (pc = "loop" /\ done
              /\ (Depth(vm.dstack) # 1 \/ ~asBool(Top(vm.dstack))))
             => result' # "nil" ]_vars

\* a scriptpath spend was accepted
C1_Witness ==
  pc = "returned" /\ result = "nil" /\ ~MustSucceed(vm) /\ Len(vm.scripts) = 3

\* C2: Execute never returns success for an engine whose pubkey script is no
\* taproot witness program (version 1, 32-byte program).
C2_TaprootOnly ==
  (pc = "returned" /\ result = "nil") => IsPayToTaproot(args.scriptPubKey)

\* a pubkey script that is no witness program was run as an ordinary script
\* and its result accepted
C2_Witness ==
  /\ pc = "returned" /\ result = "nil"
  /\ ~IsWitnessProgram(args.scriptPubKey)
  /\ nSteps = NumOpcodes(args.scriptPubKey)

\* the keyspend case: a taproot program, one witness element left after the
\* annex, and the pubkey script executed to its end
KeySpendCase ==
  /\ Executing
  /\ IsPayToTaproot(args.scriptPubKey)
  /\ Len(StrippedWitness) = 1
  /\ nSteps = NumOpcodes(args.scriptPubKey)

\* the BIP-340 key-spend verification of the witness signature passes
KeySpendSigValid ==
  VerifyTaprootKeySpend(ExtractWitnessProgram(args.scriptPubKey), StrippedWitness[1],
                        args.tx, args.txIdx, FALSE, {}).err = "nil"

\* what holds of a keyspend whose signature verified, up to the result
KeySpendBypass ==
  /\ MustSucceed(vm)
  /\ Len(vm.scripts) = 2
  /\ vm.scripts = <<args.tx.TxIn[args.txIdx + 1].SignatureScript, args.scriptPubKey>>
  /\ vm.scriptIdx = 2
  /\ done

\* C3 as stated: on a keyspend whose signature verifies, no leaf script is
\* appended, no opcode runs after the pubkey script, must_succeed is set and
\* Execute returns success.
C3_KeyspendBypass_Original ==
  /\ (KeySpendCase /\ KeySpendSigValid) =>
        /\ KeySpendBypass
        /\ pc = "returned" => result = "nil"
  /\ (Executing /\ IsPayToTaproot(args.scriptPubKey) /\ Len(StrippedWitness) = 1)
        => nSteps <= NumOpcodes(args.scriptPubKey)

\* C3, amended: as stated, but Execute returns success or the error of the
\* step callback of a debug engine.
C3_KeyspendBypass ==
  /\ (KeySpendCase /\ KeySpendSigValid) =>
        /\ KeySpendBypass
        /\ pc = "returned" => result \in {"nil", "ErrCallback"}
        /\ (pc = "returned" /\ vm.stepCallback <= 0) => result = "nil"
  /\ (Executing /\ IsPayToTaproot(args.scriptPubKey) /\ Len(StrippedWitness) = 1)
        => nSteps <= NumOpcodes(args.scriptPubKey)

\* a keyspend was accepted with the two items of the pubkey script on dstack
C3_Witness ==
  /\ KeySpendCase /\ KeySpendSigValid
  /\ pc = "returned" /\ result = "nil"
  /\ Depth(vm.dstack) = 2

\* C4: the leaf script is in scripts (and so its opcodes run) only if the
\* control block, the last witness element after the annex, parsed and the
\* leaf commitment of (control block, witness program, that script)
\* verified; a success by the scriptpath implies both.
C4_ControlBlockBinding ==
  /\ Len(vm.scripts) > 2 =>
        /\ Len(vm.scripts) = 3
        /\ vm.scripts[3] = StrippedWitness[Len(StrippedWitness) - 1]
        /\ ParseControlBlock(Last(StrippedWitness)).err = "nil"
        /\ VerifyTaprootLeafCommitment(Last(StrippedWitness), vm.witnessProgram,
                                       vm.scripts[3]) = "nil"
  /\ (Executing /\ Len(vm.scripts) = 2 /\ Len(vm.witnessProgram) # 0)
        => nSteps <= NumOpcodes(args.scriptPubKey)
  /\ (pc = "returned" /\ result = "nil" /\ IsPayToTaproot(args.scriptPubKey)
        /\ ~MustSucceed(vm)) => Len(vm.scripts) = 3

\* an opcode of a committed leaf script was executed
C4_Witness ==
  Len(vm.scripts) = 3 /\ nSteps > NumOpcodes(args.scriptPubKey) /\ err = "nil"


AllWithin(stack) == \A i \in 1..Len(stack) : Len(stack[i]) <= MaxScriptElementSize

\* the Step just taken parsed an opcode with more data than an element holds
ParsedOversize == Executing /\ nSteps > 0 /\ Len(vm.tokenizer.data) > MaxScriptElementSize

\* the engine set the initial stack of a leaf, an oversize element in it
InitialOversize ==
  /\ Executing /\ Len(vm.scripts) = 3
  /\ ~AllWithin(SubSeq(StrippedWitness, 1, Len(StrippedWitness) - 2))

C8_TerminalErrors_Original ==
  [][ (TerminalCheck /\ ~MustSucceed(vm)) =>
        /\ Depth(vm.dstack) = 0 => result' = "ErrEmptyStack"
        /\ Depth(vm.dstack) > 1 => result' = "ErrCleanStack"
        /\ (Depth(vm.dstack) = 1 /\ ~asBool(Top(vm.dstack))) => result' = "ErrEvalFalse" ]_vars

\* C8, amended: the terminal check returns CleanStack for a dstack with no
\* element or more than one, EvalFalse for one false element; Execute never
\* returns EmptyStack.
C8_TerminalErrors ==
  /\ [][ (TerminalCheck /\ ~MustSucceed(vm)) =>
           /\ Depth(vm.dstack) # 1 => result' = "ErrCleanStack"
           /\ (Depth(vm.dstack) = 1 /\ ~asBool(Top(vm.dstack))) => result' = "ErrEvalFalse" ]_vars
  /\ [](result # "ErrEmptyStack")

\* the scripts of a spend finished with an empty dstack
C8_Witness ==
  /\ pc = "returned" /\ done /\ result = "ErrCleanStack"
  /\ Depth(vm.dstack) = 0 /\ Len(vm.scripts) = 3

\* C9: when a Step returns an error Execute returns that error at once: the
\* engine takes no further Step and the result is never success.
C9_ErrorsFatal ==
  /\ [][ (pc = "loop" /\ err' # "nil") => (pc' = "returned" /\ result' = err') ]_vars
  /\ [](err # "nil" => pc = "returned" /\ result = err)
  /\ [][ err # "nil" => (nSteps' <= nSteps /\ (vm' = vm \/ vm' = ZeroEngine)) ]_vars

\* an opcode of a leaf failed and Execute returned its error
C9_Witness ==
  /\ pc = "returned" /\ err # "nil" /\ result = err
  /\ nSteps > NumOpcodes(args.scriptPubKey)

\* the opcodes of the scripts of the engine
TotalOpcodes(scripts) ==
  Let(LAMBDA f : SumOver(f, 1, Len(scripts)),
      [i \in 1..Len(scripts) |-> NumOpcodes(scripts[i])])

\* C10: Execute terminates; the script index never decreases and the
\* tokenizer never moves back within a script; a Step without error parses
\* exactly one opcode; the Steps of an execution are at most the opcodes of
\* the scripts of the engine.
C10_Terminates ==
  /\ [][ pc' # "new" =>
           /\ vm'.scriptIdx >= vm.scriptIdx
           /\ vm'.scriptIdx = vm.scriptIdx => vm'.tokenizer.offset >= vm.tokenizer.offset ]_vars
  /\ [][ (nSteps' = nSteps + 1 /\ err' = "nil") =>
           /\ TokNext(vm.tokenizer).ok
           /\ \/ vm'.tokenizer = TokNext(vm.tokenizer).t
              \/ vm'.scriptIdx > vm.scriptIdx /\ TokDone(TokNext(vm.tokenizer).t) ]_vars
  /\ [](nSteps <= TotalOpcodes(vm.scripts))
  /\ (pc = "execute") ~> (pc = "returned")

\* an execution took as many Steps as its three scripts have opcodes
C10_Witness ==
  /\ pc = "returned" /\ Len(vm.scripts) = 3
  /\ nSteps = TotalOpcodes(vm.scripts) /\ nSteps > NumOpcodes(args.scriptPubKey) + 1

\* the transition is a Step of Execute that parses the opcode op in an
\* executing branch and calls its handler
ExecutesOpcode(op) ==
  /\ pc = "loop" /\ ~done /\ nSteps' = nSteps + 1
  /\ vm.scriptIdx < Len(vm.scripts)
  /\ isBranchExecuting(vm)
  /\ TokNext(vm.tokenizer).ok
  /\ TokNext(vm.tokenizer).t.op = op

\* the transition executes an asset introspection opcode
ExecutesAssetOpcode == \E op \in AssetOpcodes : ExecutesOpcode(op)

\* the Step of the transition failed with the error e, which Execute
\* returned, and left both stacks as they were
FailsUntouched(e) ==
  /\ err' = e /\ pc' = "returned" /\ result' = e
  /\ vm'.dstack = vm.dstack /\ vm'.astack = vm.astack

GroupOpcodes ==
  { OP_INSPECTASSETGROUPASSETID, OP_INSPECTASSETGROUPCTRL,
    OP_INSPECTASSETGROUPMETADATAHASH, OP_INSPECTASSETGROUPNUM, OP_INSPECTASSETGROUP,
    OP_INSPECTASSETGROUPSUM, OP_INSPECTGROUPINTENTOUTCOUNT, OP_INSPECTGROUPINTENTOUT,
    OP_INSPECTGROUPINTENTINCOUNT, OP_INSPECTGROUPINTENTIN }

\* the operands of an opcode that takes a group index; the group index is
\* the deepest of them
Operands(op) ==
  IF op = OP_INSPECTASSETGROUP THEN 3
  ELSE IF op \in { OP_INSPECTASSETGROUPNUM, OP_INSPECTASSETGROUPSUM,
                   OP_INSPECTGROUPINTENTOUT, OP_INSPECTGROUPINTENTIN } THEN 2
  ELSE 1

\* the n-th element of dstack from the top (the top is the first)
FromTop(n) == vm.dstack[Depth(vm.dstack) - n + 1]

\* dstack holds the operands of op, all of them script numbers
HasOperands(op) ==
  /\ Depth(vm.dstack) >= Operands(op)
  /\ \A n \in 1..Operands(op) : MakeScriptNum(FromTop(n)).err = "nil"

\* the group index op is about to pop
GroupIndex(op) == MakeScriptNum(FromTop(Operands(op))).n

\* the transition executes an opcode that takes a group index, over a packet
\* without a group of that index
ExecutesOutOfRange(op) ==
  /\ op \in GroupOpcodes
  /\ ExecutesOpcode(op)
  /\ ~vm.assetPacket.isNil
  /\ HasOperands(op)
  /\ (GroupIndex(op) < 0 \/ GroupIndex(op) >= Len(vm.assetPacket.Groups))

\* the Step of the transition failed with the error e, which Execute
\* returned, after its opcode popped n operands and pushed nothing
FailsPopped(e, n) ==
  /\ err' = e /\ pc' = "returned" /\ result' = e
  /\ vm'.dstack = SubSeq(vm.dstack, 1, Depth(vm.dstack) - n)
  /\ vm'.astack = vm.astack

\* the error kind of an asset opcode without a packet, and of an asset
\* opcode with a source that is none of 0, 1, 2
MissingPacketKind == checkAssetPacket([vm EXCEPT !.assetPacket = NilAssetPacket])

InvalidSourceKind == groupNum(vm, 0, 3).err

RECURSIVE MathSum(_)
MathSum(items) ==
  IF Len(items) = 0 THEN <<0, 0, 0, 0, 0>>
  ELSE addLimbs(MathSum(Front(items)), Append(Last(items).Amount, 0), 0)

\* the sum of the amounts exceeds 2^64 - 1
ExceedsUint64(items) == MathSum(items)[5] > 0

\* the uint64 a sum within 2^64 - 1 is
AsUint64(wide) == SubSeq(wide, 1, 4)

\* the transition executes OP_INSPECTASSETGROUPSUM on the group k with the
\* source s
ExecutesSum(k, s) ==
  /\ ExecutesOpcode(OP_INSPECTASSETGROUPSUM)
  /\ ~vm.assetPacket.isNil
  /\ HasOperands(OP_INSPECTASSETGROUPSUM)
  /\ MakeScriptNum(FromTop(1)).n = s
  /\ GroupIndex(OP_INSPECTASSETGROUPSUM) = k
  /\ k >= 0 /\ k < Len(vm.assetPacket.Groups)

\* the amounts the source s aggregates in a sum that exceeds 2^64 - 1
SourceExceeds(k, s) ==
  \/ s \in {0, 2} /\ ExceedsUint64(Group(vm, k).Inputs)
  \/ s \in {1, 2} /\ ExceedsUint64(Group(vm, k).Outputs)

\* C13: INSPECTASSETGROUPSUM fails with an error whenever the sum of the
\* amounts it aggregates (the inputs for source 0, the outputs for source 1,
\* either of them for source 2) exceeds 2^64 - 1; it never pushes a value
\* that wrapped around modulo 2^64.
C13_SumOverflow ==
  [][ \A k \in Indexes, s \in 0..2 :
        (ExecutesSum(k, s) /\ SourceExceeds(k, s)) => err' # "nil" ]_vars

\* OP_INSPECTASSETGROUPSUM returned without error over three inputs of 2^63
\* and pushed 2^63
C13_Witness ==
  /\ pc = "loop" /\ done /\ err = "nil" /\ nSteps = 1
  /\ vm.tokenizer.op = OP_INSPECTASSETGROUPSUM
  /\ args.assetPacket = largeAmountsPacket
  /\ ExceedsUint64(Group(vm, 0).Inputs)
  /\ vm.dstack = << PutUint64(U64(0, 0, 0, Limb \div 2)) >>

\* the engine of the state with the numbers ns as its dstack
OnStack(ns) == [vm EXCEPT !.dstack = [i \in 1..Len(ns) |-> scriptNumBytes(ns[i])]]

\* the count OP_INSPECTASSETGROUPNUM pushes for the group k and the source s
NumPushed(k, s) ==
  scriptNumValue(Top(opcodeInspectAssetGroupNum(OnStack(<<k, s>>)).vm.dstack))

\* the amount OP_INSPECTASSETGROUP pushes for the item j of the group k and
\* the source s: the top of the stack it leaves
AmountPushed(k, j, s) == Top(opcodeInspectAssetGroup(OnStack(<<k, j, s>>)).vm.dstack)

\* binary.LittleEndian.Uint64: the uint64 of eight bytes
Uint64Of(e) == [i \in 1..4 |-> e[2 * i - 1] + 256 * e[2 * i]]

\* the amounts OP_INSPECTASSETGROUP pushes for the items 0 .. n - 1, n the
\* count OP_INSPECTASSETGROUPNUM pushes
EntryAmounts(k, s) ==
  [j \in 1..NumPushed(k, s) |-> [Amount |-> Uint64Of(AmountPushed(k, j - 1, s))]]

\* C14: asset sum = entry sum: the value INSPECTASSETGROUPSUM(K, source)
\* pushes, for source 1 (outputs) and for source 0 (inputs), is the sum over
\* j in [0, n) of the amounts INSPECTASSETGROUP(K, j, source) pushes, n being
\* the count INSPECTASSETGROUPNUM(K, source) pushes.
C14_SumOfEntries ==
  [][ \A k \in Indexes, s \in 0..1 :
        (ExecutesSum(k, s) /\ err' = "nil") =>
           Append(Uint64Of(Top(vm'.dstack)), 0) = MathSum(EntryAmounts(k, s)) ]_vars

\* OP_INSPECTASSETGROUPSUM pushed 0 for the two outputs of a group, of the
\* amounts 2^64 - 1 and 1
C14_Witness ==
  /\ pc = "loop" /\ done /\ err = "nil" /\ nSteps = 1
  /\ vm.tokenizer.op = OP_INSPECTASSETGROUPSUM
  /\ NumPushed(0, 1) = 2
  /\ AmountPushed(0, 0, 1) = PutUint64(MaxUint64)
  /\ AmountPushed(0, 1, 1) = PutUint64(Amount(1))
  /\ vm.dstack = << PutUint64(Amount(0)) >>

\* the asset id of the group k is not the zero id and no other group of the
\* packet has it
NonZeroUnique(groups, k) ==
  /\ groups[k + 1].AssetID # AssetID(Txid(0), 0)
  /\ \A i \in 1..Len(groups) : i # k + 1 => groups[i].AssetID # groups[k + 1].AssetID

\* the script that looks up the asset id of a group
AssetIdThenFind == <<OP_INSPECTASSETGROUPASSETID, OP_FINDASSETGROUPBYASSETID>>

\* the group index on top of the stack the caller set
CallerIndex == MakeScriptNum(Last(args.stack))

\* C15: find is a right inverse of AssetId: for every group index K whose
\* asset id is non-zero and differs from the asset id of every other group,
\* INSPECTASSETGROUPASSETID executed on K succeeds, and
\* FINDASSETGROUPBYASSETID on the two items it pushed succeeds and leaves
\* exactly K in their place, on top of the rest of the stack (the stacks
\* being below their bound of 1000 elements).
C15_FindInvertsAssetId ==
  /\ [][ (/\ ExecutesOpcode(OP_INSPECTASSETGROUPASSETID)
          /\ ~vm.assetPacket.isNil
          /\ HasOperands(OP_INSPECTASSETGROUPASSETID)
          /\ Depth(vm.dstack) + Depth(vm.astack) < MaxStackSize
          /\ GroupIndex(OP_INSPECTASSETGROUPASSETID) \in 0..(Len(vm.assetPacket.Groups) - 1)
          /\ NonZeroUnique(vm.assetPacket.Groups, GroupIndex(OP_INSPECTASSETGROUPASSETID)))
         => /\ err' = "nil"
            /\ Depth(vm'.dstack) = Depth(vm.dstack) + 1
            /\ opcodeFindAssetGroupByAssetID(vm') =
                 Ok([vm' EXCEPT !.dstack =
                       Append(Front(vm.dstack),
                              scriptNumBytes(GroupIndex(OP_INSPECTASSETGROUPASSETID)))]) ]_vars
  /\ [](( /\ args.scriptPubKey = AssetIdThenFind /\ pc = "loop" /\ nSteps = 2 /\ err = "nil"
          /\ NonZeroUnique(vm.assetPacket.Groups, CallerIndex.n))
        => vm.dstack = Append(Front(args.stack), scriptNumBytes(CallerIndex.n)))

\* the two opcodes ran on the index 1 of a group whose asset id has a group
\* index of two bytes as a script number, and left 1
C15_Witness ==
  /\ args.scriptPubKey = AssetIdThenFind /\ pc = "loop" /\ nSteps = 2 /\ err = "nil"
  /\ args.assetPacket = twinGroupsPacket
  /\ args.stack = << scriptNumBytes(0), scriptNumBytes(1) >>
  /\ NonZeroUnique(vm.assetPacket.Groups, 1)
  /\ vm.dstack = << scriptNumBytes(0), scriptNumBytes(1) >>
(***************************************************************************)
(* Exact integers, to state the results of 64-bit arithmetic: a sign and   *)
(* a magnitude of Wide base-256 digits, little endian.                     *)
(***************************************************************************)
Wide == 2 * le64Len + 1

widen(a) == SubSeq([i \in 1..Wide |-> IF i <= Len(a) THEN a[i] ELSE 0], 1, Wide)

Pow63 == SubSeq([i \in 1..Wide |-> IF i = le64Len THEN 128 ELSE 0], 1, Wide)

Pow64 == SubSeq([i \in 1..Wide |-> IF i = le64Len + 1 THEN 1 ELSE 0], 1, Wide)

lessMag(x, y) ==
  \E i \in 1..Wide : x[i] < y[i] /\ \A j \in (i + 1)..Wide : x[j] = y[j]

\* the carry into digit i of x + y
RECURSIVE carryInto(_, _, _)
carryInto(x, y, i) ==
  IF i = 1 THEN 0 ELSE (x[i - 1] + y[i - 1] + carryInto(x, y, i - 1)) \div 256

addMag(x, y) ==
  SubSeq([i \in 1..Wide |-> (x[i] + y[i] + carryInto(x, y, i)) % 256], 1, Wide)

\* the borrow from digit i of x - y, for y <= x
RECURSIVE borrowFrom(_, _, _)
borrowFrom(x, y, i) ==
  IF i = 1 THEN 0
  ELSE IF x[i - 1] < y[i - 1] + borrowFrom(x, y, i - 1) THEN 1 ELSE 0

subMag(x, y) ==
  SubSeq([i \in 1..Wide |-> (256 + x[i] - y[i] - borrowFrom(x, y, i)) % 256], 1, Wide)

\* x shifted by n digits
shiftMag(x, n) == SubSeq([i \in 1..Wide |-> IF i <= n THEN 0 ELSE x[i - n]], 1, Wide)

doubleMag(x) == addMag(x, x)

\* x times the digit d, by doubling
RECURSIVE timesDigit(_, _)
timesDigit(x, d) ==
  IF d = 0 THEN widen(<<>>)
  ELSE IF d % 2 = 0 THEN doubleMag(timesDigit(x, d \div 2))
  ELSE addMag(x, doubleMag(timesDigit(x, d \div 2)))

\* x times the digits of y from digit i on, one row at a time

RECURSIVE mulRows(_, _, _)
mulRows(x, y, i) ==
  IF i > le64Len + 1 THEN widen(<<>>)
  ELSE IF y[i] = 0 THEN mulRows(x, y, i + 1)
  ELSE addMag(shiftMag(timesDigit(x, y[i]), i - 1), mulRows(x, y, i + 1))

Exact(neg, mag) == [neg |-> neg /\ mag # widen(<<>>), mag |-> mag]

\* the integer the 8 bytes encode in two's complement
FromLE64(a) ==
  IF a[le64Len] >= 128 THEN Exact(TRUE, subMag(Pow64, widen(a)))
  ELSE Exact(FALSE, widen(a))

exactNeg(x) == Exact(~x.neg, x.mag)

exactAdd(x, y) ==
  IF x.neg = y.neg THEN Exact(x.neg, addMag(x.mag, y.mag))
  ELSE IF lessMag(x.mag, y.mag) THEN Exact(y.neg, subMag(y.mag, x.mag))
  ELSE Exact(x.neg, subMag(x.mag, y.mag))

exactMul(x, y) == Exact(x.neg # y.neg, mulRows(x.mag, y.mag, 1))

\* the exact result of the opcode on a and b
Exact64(op, a, b) ==
  IF op = OP_ADD64 THEN exactAdd(FromLE64(a), FromLE64(b))
  ELSE IF op = OP_SUB64 THEN exactAdd(FromLE64(a), exactNeg(FromLE64(b)))
  ELSE IF op = OP_MUL64 THEN exactMul(FromLE64(a), FromLE64(b))
  ELSE exactNeg(FromLE64(a))

\* the integer is in [-2^63, 2^63 - 1]
FitsInt64(x) == lessMag(x.mag, Pow63) \/ (x.neg /\ x.mag = Pow63)

\* the 8 bytes that encode an integer of [-2^63, 2^63 - 1]
ToLE64(x) == SubSeq(IF x.neg THEN subMag(Pow64, x.mag) ELSE x.mag, 1, le64Len)

\* the number of operands of the opcode
Arity64(op) == IF op = OP_NEG64 THEN 1 ELSE 2

\* the transition executes the opcode on operands of 8 bytes, with room on
\* the stacks for the flag
ExecutesArith64(op) ==
  /\ ExecutesOpcode(op)
  /\ Depth(vm.dstack) >= Arity64(op)
  /\ \A n \in 1..Arity64(op) : Len(FromTop(n)) = le64Len
  /\ Depth(vm.dstack) + Depth(vm.astack) < MaxStackSize

\* the stack the opcode leaves for the exact result x of the operands a
\* (under b) and b, or of the operand a
Leaves64(op, a, b, x) ==
  SubSeq(vm.dstack, 1, Depth(vm.dstack) - Arity64(op))
    \o (IF FitsInt64(x) THEN << ToLE64(x), <<1>> >>
        ELSE IF op = OP_NEG64 THEN << a, <<>> >>
        ELSE << a, b, <<>> >>)

\* C16: ADD64, SUB64 and MUL64 on the 8-byte operands a (under b) and b
\* replace them by the exact result and the flag 1 on top when the result
\* is in [-2^63, 2^63 - 1], and otherwise leave a, b and the flag 0 on top,
\* a and b in their order; NEG64 does the same on its one operand, and
\* overflows only on -2^63. None of them raises an error.
C16_Arith64 ==
  [][ \A op \in Arith64Opcodes :
        ExecutesArith64(op) =>
          /\ err' = "nil"
          /\ vm'.dstack =
               Leaves64(op, FromTop(Arity64(op)), FromTop(1),
                        Exact64(op, FromTop(Arity64(op)), FromTop(1)))
          /\ (op = OP_NEG64 =>
                (FitsInt64(Exact64(op, FromTop(1), FromTop(1)))
                   <=> FromTop(1) # MinInt64)) ]_vars

\* ADD64 after the pushes of 2^63 - 1 and 1 left both operands under the
\* flag 0, and Execute went on without an error
C16_Witness ==
  /\ args.scriptPubKey = AddData(MaxInt64) \o AddData(OneByte(1, 1, 0)) \o <<OP_ADD64>>
  /\ nSteps = 3
  /\ err = "nil"
  /\ vm.dstack = args.stack \o << MaxInt64, OneByte(1, 1, 0), <<>> >>
\* the run hashes the three parts of a message
Streams == Len(args.parts) = 3

ValidIndex == args.txIdx >= 0 /\ args.txIdx < Len(args.tx.TxIn)

TxIn == args.tx.TxIn[args.txIdx + 1]

\* the pubkey script is a witness program, but not a taproot one
NonTaprootProgram ==
  ValidIndex /\ IsWitnessProgram(args.scriptPubKey) /\ ~IsPayToTaproot(args.scriptPubKey)

\* the pubkey script is no witness program and the input has witness data
UnexpectedWitness ==
  ValidIndex /\ ~IsWitnessProgram(args.scriptPubKey) /\ Len(TxIn.Witness) # 0

\* NewEngine returned an error and no engine, if it returned
RejectedAtConstruction ==
  /\ pc \in {"new", "noengine"}
  /\ pc = "noengine" => (result \notin {"nil", "none"} /\ vm = ZeroEngine)

\* C18 as the specification states it: NewEngine returns an error and no
\* engine both for a witness program that is not taproot and for a script
\* that is no witness program on an input with witness data.
C18_TaprootOnly_Original ==
  (NonTaprootProgram \/ UnexpectedWitness) => RejectedAtConstruction

\* C18: NewEngine returns an error and no engine when the pubkey script is
\* not a witness program but the input carries witness data.  When the
\* pubkey script is a witness program that is not taproot, NewEngine
\* returns an error only for a signature script that is not empty; with an
\* empty one it returns an engine, and the spend is rejected later: Execute
\* returns an error, which without a step callback is the one of
\* verifyWitnessProgram at the end of the pubkey script.
C18_TaprootOnly ==
  /\ UnexpectedWitness => RejectedAtConstruction
  /\ (NonTaprootProgram /\ Len(TxIn.SignatureScript) # 0) => RejectedAtConstruction
  /\ (NonTaprootProgram /\ Len(TxIn.SignatureScript) = 0) =>
       /\ pc # "noengine"
       /\ pc = "returned" =>
            /\ result \notin {"nil", "none"}
            /\ args.stepCallback = -1 => result = "ErrOnlyTaproot"

\* Execute returned the error of verifyWitnessProgram on the engine that
\* NewEngine built for a version 0 witness program
C18_Witness ==
  /\ NonTaprootProgram
  /\ ExtractWitnessVersion(args.scriptPubKey) = 0
  /\ pc = "returned"
  /\ result = "ErrOnlyTaproot"
  /\ vm.witnessProgram = ExtractWitnessProgram(args.scriptPubKey)

\* NewEngine returned ErrWitnessUnexpected and no engine
C18_Witness_Unexpected ==
  UnexpectedWitness /\ pc = "noengine" /\ result = "ErrWitnessUnexpected"
\* NewEngine returned the error e and no engine, if it returned
FailsAtConstruction(e) ==
  /\ pc \in {"new", "noengine"}
  /\ pc = "noengine" => (result = e /\ vm = ZeroEngine)

\* the pubkey script is a witness program and the signature script of the
\* validated input is not empty
ProgramWithSigScript ==
  ValidIndex /\ IsWitnessProgram(args.scriptPubKey) /\ Len(TxIn.SignatureScript) # 0

\* C19 as the specification states it: every non-empty signature script on
\* a witness program fails with WitnessMalleated.
C19_Construction_Original ==
  /\ ProgramWithSigScript => FailsAtConstruction("ErrWitnessMalleated")
  /\ ~ValidIndex => FailsAtConstruction("ErrInvalidIndex")
  /\ (ValidIndex /\ ~IsPushOnlyScript(TxIn.SignatureScript)) =>
       FailsAtConstruction("ErrNotPushOnly")

\* C19: NewEngine with a pubkey script that is a witness program and a
\* non-empty signature script that is push-only and of at most MaxScriptSize
\* bytes fails with WitnessMalleated and returns no engine; an input index
\* outside [0, number of inputs) fails with InvalidIndex, and a signature
\* script that is not push-only fails with NotPushOnly, on a witness program
\* too.
C19_Construction ==
  /\ (/\ ProgramWithSigScript
      /\ IsPushOnlyScript(TxIn.SignatureScript)
      /\ Len(TxIn.SignatureScript) <= MaxScriptSize) =>
       FailsAtConstruction("ErrWitnessMalleated")
  /\ ~ValidIndex => FailsAtConstruction("ErrInvalidIndex")
  /\ (ValidIndex /\ ~IsPushOnlyScript(TxIn.SignatureScript)) =>
       FailsAtConstruction("ErrNotPushOnly")

\* NewEngine returned ErrWitnessMalleated for a push-only signature script
\* on a witness program
C19_Witness ==
  /\ ProgramWithSigScript
  /\ pc = "noengine" /\ result = "ErrWitnessMalleated" /\ vm = ZeroEngine

\* the other errors of the claim were returned: for an index that is not
\* valid, for a signature script that is not push-only on a witness program,
\* for one that is too big
C19_Witness_Index == ~ValidIndex /\ pc = "noengine" /\ result = "ErrInvalidIndex"

C19_Witness_NotPushOnly ==
  ProgramWithSigScript /\ pc = "noengine" /\ result = "ErrNotPushOnly"

C19_Witness_TooBig ==
  ProgramWithSigScript /\ pc = "noengine" /\ result = "ErrScriptTooBig"
\* what no Step changes
Frame(v) ==
  [tx |-> v.tx, txIdx |-> v.txIdx, prevOutFetcher |-> v.prevOutFetcher,
   witnessVersion |-> v.witnessVersion, witnessProgram |-> v.witnessProgram,
   assetPacket |-> v.assetPacket]

\* the Step appends the witness script of a scriptpath spend, leaving
\* script index 1
AppendsLeaf ==
  /\ Len(vm.scripts) = 2
  /\ vm.scriptIdx = 1
  /\ vm'.scriptIdx >= 2
  /\ IsPayToTaproot(vm.scripts[2])
  /\ Len(StrippedWitness) >= 2
  /\ vm'.scripts = Append(vm.scripts, StrippedWitness[Len(StrippedWitness) - 1])

\* C20: no Step changes the transaction, the input index, the prev-out
\* fetcher, the witness version and program, or the asset packet.  The
\* scripts are append-only: a Step leaves them as they are or appends the
\* one leaf script of the scriptpath spend, at the transition out of script
\* index 1; the first two are always the signature script and the pubkey
\* script NewEngine was given, and there are never more than three.
C20_StepFrame ==
  /\ [][ pc = "loop" =>
           /\ Frame(vm') = Frame(vm)
           /\ (vm'.scripts = vm.scripts \/ AppendsLeaf) ]_vars
  /\ [](pc \in {"execute", "loop", "returned"} =>
           /\ SubSeq(vm.scripts, 1, 2) = <<TxIn.SignatureScript, args.scriptPubKey>>
           /\ Len(vm.scripts) <= 3)

\* the leaf script of a scriptpath spend was appended and its asset opcode
\* executed on a packet with groups, which is still the packet of the engine
C20_Witness ==
  /\ pc = "loop"
  /\ Len(vm.scripts) = 3
  /\ vm.scripts[3] = <<OP_INSPECTNUMASSETGROUPS>>
  /\ vm.scriptIdx >= 3
  /\ vm.dstack = << scriptNumBytes(Len(args.assetPacket.Groups)) >>
  /\ Len(args.assetPacket.Groups) > 1
  /\ Frame(vm).assetPacket = args.assetPacket
  /\ Frame(vm).witnessProgram = ExtractWitnessProgram(args.scriptPubKey)
\* the transition is a Step over the opcode op of the current script
StepsOver(op) ==
  /\ pc = "loop" /\ ~done /\ nSteps' = nSteps + 1
  /\ vm.scriptIdx < Len(vm.scripts)
  /\ TokNext(vm.tokenizer).ok
  /\ TokNext(vm.tokenizer).t.op = op

\* the transition steps over an asset opcode in a branch that is not executing
SkipsAssetOpcode == ~isBranchExecuting(vm) /\ \E op \in AssetOpcodes : StepsOver(op)

\* the engine without its asset packet
WithoutPacket(v) == [v EXCEPT !.assetPacket = NilAssetPacket]

\* the Step of the transition and the Step r of the engine without packet
\* end alike
SameStep(r) == r.err = err' /\ r.done = done' /\ r.vm = WithoutPacket(vm')

\* C21: a Step over an asset opcode in a branch that is not executing
\* returns no error and leaves both stacks alone, with and without a packet;
\* and every Step that executes no asset opcode ends the same way, with the
\* same engine but for the packet, when the packet is taken away, and so
\* does the terminal check of Execute.  So a script whose asset opcodes are
\* all skipped runs to the same outcome with and without a packet and never
\* fails for the missing packet.
C21_PacketOptional ==
  [][ /\ SkipsAssetOpcode =>
           /\ err' = "nil"
           /\ vm'.dstack = vm.dstack /\ vm'.astack = vm.astack
      /\ (pc = "loop" /\ nSteps' = nSteps + 1 /\ ~ExecutesAssetOpcode) =>
           SameStep(Step(WithoutPacket(vm), sigCache))
      /\ (pc = "loop" /\ done /\ pc' = "returned") =>
           CheckErrorCondition(WithoutPacket(vm), TRUE).err = result' ]_vars

\* Execute returned nil on an engine without packet, for a script with an
\* asset opcode in the branch of an OP_IF that did not execute
C21_Witness ==
  /\ args.scriptPubKey = <<OP_0, OP_IF, OP_INSPECTASSETGROUPSUM, OP_ENDIF, OP_1>>
  /\ vm.assetPacket.isNil
  /\ pc = "returned" /\ result = "nil"
  /\ nSteps = 5

\* the same script returned nil on an engine with a packet
C21_Witness_Packet ==
  /\ args.scriptPubKey = <<OP_0, OP_IF, OP_INSPECTASSETGROUPSUM, OP_ENDIF, OP_1>>
  /\ Len(vm.assetPacket.Groups) > 0
  /\ pc = "returned" /\ result = "nil"
\* the transition executes INSPECTASSETGROUPCTRL on the valid group index k,
\* with room on the stacks for one more element
ExecutesCtrl(k) ==
  /\ ExecutesOpcode(OP_INSPECTASSETGROUPCTRL)
  /\ ~vm.assetPacket.isNil
  /\ HasOperands(OP_INSPECTASSETGROUPCTRL)
  /\ GroupIndex(OP_INSPECTASSETGROUPCTRL) = k
  /\ k >= 0 /\ k < Len(vm.assetPacket.Groups)
  /\ Depth(vm.dstack) + Depth(vm.astack) < MaxStackSize

\* what INSPECTASSETGROUPCTRL pushes for the control asset: the 32 bytes of
\* its txid and its group index on top, or the one byte 0x81 of -1
CtrlItems(control) ==
  IF control.isNil THEN << <<129>> >>
  ELSE << control.Txid, scriptNumBytes(control.Gidx) >>

\* C22: INSPECTASSETGROUPCTRL pops K and, for a valid K, returns no error
\* and pushes exactly two items, the control txid32 and then its group index
\* on top, when group K has a control asset, and exactly one item, the
\* script number -1, when it has none.
C22_Ctrl ==
  [][ \A k \in Indexes :
        ExecutesCtrl(k) =>
          /\ err' = "nil"
          /\ vm'.dstack = Front(vm.dstack) \o CtrlItems(Group(vm, k).Control)
          /\ Len(CtrlItems(Group(vm, k).Control)) =
               (IF Group(vm, k).Control.isNil THEN 1 ELSE 2) ]_vars

\* the control asset of group 0 of the test packet was pushed over an
\* element of the alt stack
C22_Witness ==
  /\ args.scriptPubKey = <<OP_1, OP_TOALTSTACK, OP_INSPECTASSETGROUPCTRL>>
  /\ args.assetPacket = makeTestAssetPacket
  /\ nSteps = 3 /\ err = "nil" /\ pc = "loop"
  /\ vm.dstack = << testControlTxid, <<1>> >>

\* group 1 of the test packet has no control asset: -1 was pushed
C22_Witness_Absent ==
  /\ args.scriptPubKey = <<OP_INSPECTASSETGROUPCTRL>>
  /\ args.assetPacket = makeTestAssetPacket
  /\ args.stack = << <<1>> >>
  /\ nSteps = 1 /\ err = "nil" /\ pc = "loop"
  /\ vm.dstack = << <<129>> >>
\* the signature checks among the opcodes the tokenizer has gone through, in
\* a script of one-byte opcodes without conditionals
Straight(script) ==
  \A i \in 1..Len(script) :
    /\ script[i] = OP_0 \/ script[i] > OP_PUSHDATA4
    /\ ~isOpcodeConditional(script[i])

Tallies == Cardinality({ i \in 1..vm.tokenizer.offset :
                           vm.tokenizer.script[i] = OP_CHECKSIGFROMSTACK })

\* the budget witness verification starts with
StartBudget == sigOpsDelta + SerializeSize(TxIn.Witness)

\* a Step of an engine with a taproot context over a signature check tallies
\* it, and no other Step changes the budget
TallyStep ==
  (pc = "loop" /\ nSteps' = nSteps + 1) =>
    /\ (vm.taprootCtx.isNil /\ ~vm'.taprootCtx.isNil) =>
         vm'.taprootCtx.sigOpsBudget = StartBudget
    /\ ~vm.taprootCtx.isNil =>
         /\ ~vm'.taprootCtx.isNil
         /\ vm'.taprootCtx.sigOpsBudget <= vm.taprootCtx.sigOpsBudget
         /\ IF ExecutesOpcode(OP_CHECKSIGFROMSTACK) /\ Depth(vm.dstack) >= 3
              THEN /\ vm'.taprootCtx.sigOpsBudget =
                        vm.taprootCtx.sigOpsBudget - sigOpsDelta
                   /\ (err' = "ErrTaprootMaxSigOps") <=>
                        (vm'.taprootCtx.sigOpsBudget < 0)
                   /\ err' \in {"nil", "ErrTaprootMaxSigOps"}
              ELSE /\ vm'.taprootCtx.sigOpsBudget = vm.taprootCtx.sigOpsBudget
                   /\ err' # "ErrTaprootMaxSigOps"

\* after n tallies the budget is 50 + size - 50 * n: in a script of
\* signature checks that all found their operands, n is the number of
\* signature checks gone through
ClosedForm ==
  (/\ pc \in {"loop", "returned"} /\ ~vm.taprootCtx.isNil
   /\ Straight(vm.tokenizer.script) /\ err # "ErrInvalidStackOperation") =>
    vm.taprootCtx.sigOpsBudget = StartBudget - sigOpsDelta * Tallies

\* C23: the sig-ops budget starts at 50 + the serialized witness size when
\* witness verification begins; each signature-check tally lowers it by
\* exactly 50, so that after n tallies it is 50 + size - 50 * n; a tally
\* returns TaprootMaxSigOps exactly when the budget after the subtraction is
\* below zero; no other Step changes the budget, so it never increases.
C23_SigOpsBudget == []ClosedForm /\ [][TallyStep]_vars

\* the second tally of a scriptpath spend ran out of budget
C23_Witness ==
  /\ pc = "returned" /\ result = "ErrTaprootMaxSigOps"
  /\ ~vm.taprootCtx.isNil /\ Tallies = 2 /\ Straight(vm.tokenizer.script)
  /\ vm.taprootCtx.sigOpsBudget = StartBudget - 2 * sigOpsDelta
  /\ vm.taprootCtx.sigOpsBudget < 0

\* four tallies within the budget of a larger witness
C23_Witness_Within ==
  /\ pc = "returned" /\ result = "nil"
  /\ ~vm.taprootCtx.isNil /\ Tallies = 4
  /\ vm.taprootCtx.sigOpsBudget >= 0

\* a tally that left a budget of exactly zero
C23_Witness_Zero ==
  /\ pc = "loop" /\ err = "nil" /\ ~vm.taprootCtx.isNil
  /\ vm.taprootCtx.sigOpsBudget = 0 /\ Tallies > 0
\* the transition is a Step of Execute
Steps == pc = "loop" /\ ~done /\ nSteps' = nSteps + 1

\* the opcode the Step of the transition parses is the last one of its script
LastOpcode ==
  /\ vm.scriptIdx < Len(vm.scripts)
  /\ TokNext(vm.tokenizer).ok
  /\ TokDone(TokNext(vm.tokenizer).t)

\* the engine and error after the opcode the Step of the transition executes
Executed ==
  executeOpcode([vm EXCEPT !.tokenizer = TokNext(vm.tokenizer).t],
                TokNext(vm.tokenizer).t.op, TokNext(vm.tokenizer).t.data)

\* the Step of the transition has executed the last opcode of a script
ExecutesLastOpcode == Steps /\ LastOpcode /\ Executed.err = "nil"

\* ... and the stacks are within the bound on their combined depth
FinishesScript ==
  /\ ExecutesLastOpcode
  /\ Depth(Executed.vm.dstack) + Depth(Executed.vm.astack) <= MaxStackSize

\* C24 as the specification states it: whenever the last opcode of a script
\* has been executed and cond_stack is non-empty, Step fails with
\* UnbalancedConditional.
C24_CondStackAtBoundary_Original ==
  [][ (ExecutesLastOpcode /\ Len(Executed.vm.condStack) # 0) =>
        err' = "ErrUnbalancedConditional" ]_vars

\* C24: the conditional stack is empty at every script boundary: when the
\* last opcode of a script has been executed, the combined stack depth is
\* within its limit and cond_stack is non-empty, Step fails with
\* UnbalancedConditional without advancing the script index; when the depth
\* is over the limit Step fails with StackOverflow, the script index not
\* advanced either; so in every state in which the script index has just
\* changed, cond_stack is empty.
C24_CondStackAtBoundary ==
  [][ /\ (FinishesScript /\ Len(Executed.vm.condStack) # 0) =>
           /\ err' = "ErrUnbalancedConditional" /\ ~done'
           /\ vm'.scriptIdx = vm.scriptIdx
           /\ vm'.condStack = Executed.vm.condStack
      /\ (FinishesScript /\ Len(Executed.vm.condStack) = 0) =>
           /\ err' # "ErrUnbalancedConditional"
           /\ vm'.scriptIdx > vm.scriptIdx
      /\ (ExecutesLastOpcode /\ ~FinishesScript) =>
           /\ err' = "ErrStackOverflow" /\ ~done'
           /\ vm'.scriptIdx = vm.scriptIdx
      /\ (vm'.scriptIdx # vm.scriptIdx) => Len(vm'.condStack) = 0 ]_vars

\* a leaf script ended inside an OP_IF: Step failed at the script index of
\* the leaf
C24_Witness ==
  /\ pc = "returned" /\ result = "ErrUnbalancedConditional"
  /\ vm.scriptIdx = 2 /\ Len(vm.scripts) = 3
  /\ Len(vm.condStack) = 1
  /\ TokDone(vm.tokenizer)

\* a leaf script ended inside an OP_IF with the stacks over their bound: Step
\* failed with the stack overflow
C24_Witness_Overflow ==
  /\ pc = "returned" /\ result = "ErrStackOverflow"
  /\ vm.scriptIdx = 2 /\ Len(vm.scripts) = 3
  /\ Len(vm.condStack) = 1
  /\ TokDone(vm.tokenizer)

\* a leaf script with a balanced conditional ran to its end
C24_Witness_Balanced ==
  /\ pc = "returned" /\ result = "nil"
  /\ vm.scriptIdx = 3 /\ Len(vm.scripts) = 3
  /\ \E i \in 1..Len(vm.scripts[3]) : vm.scripts[3][i] = OP_ENDIF
  /\ Len(vm.condStack) = 0
\* a Step that finishes a script without error leaves the alt stack empty,
\* and so does every Step that moves the script index
AltStackDropped ==
  /\ (Steps /\ LastOpcode /\ err' = "nil") =>
       /\ Depth(vm'.astack) = 0
       /\ vm'.scriptIdx > vm.scriptIdx
  /\ (Steps /\ vm'.scriptIdx # vm.scriptIdx) => Depth(vm'.astack) = 0

\* a script starts with an empty alt stack, and an execution that finished
\* without error has an empty alt stack
AltStackEmpty ==
  /\ (pc = "loop" /\ vm.opcodeIdx = 0) => Depth(vm.astack) = 0
  /\ (pc \in {"loop", "returned"} /\ done /\ err = "nil") => Depth(vm.astack) = 0

\* C25: the alt stack is emptied at every script boundary: right after any
\* Step that finishes a script without error, astack has depth 0, so the
\* leaf script starts with an empty alt stack and a finished execution ends
\* with an empty alt stack.
C25_AltStackAtBoundary == []AltStackEmpty /\ [][AltStackDropped]_vars

\* a leaf script that left an element on the alt stack finished: Execute
\* returned nil, the alt stack is empty
C25_Witness ==
  /\ pc = "returned" /\ result = "nil" /\ done
  /\ Len(vm.scripts) = 3 /\ vm.scripts[3] = <<OP_DUP, OP_TOALTSTACK>>
  /\ TxIn.Witness[1] = <<1>>
  /\ Depth(vm.astack) = 0

\* a pubkey script that left an element on the alt stack finished
C25_Witness_PkScript ==
  /\ pc = "loop" /\ done /\ err = "nil"
  /\ args.scriptPubKey = <<OP_1, OP_TOALTSTACK>>
  /\ Depth(vm.astack) = 0
\* the Step of the transition parses an opcode of the current script
Parses ==
  Steps /\ vm.scriptIdx < Len(vm.scripts) /\ TokNext(vm.tokenizer).ok

\* the opcode and the immediate data the Step of the transition parses
ParsedOp == TokNext(vm.tokenizer).t.op
ParsedData == TokNext(vm.tokenizer).t.data

\* the Step failed with e, which Execute returned
StepFails(e) == err' = e /\ done' /\ pc' = "returned" /\ result' = e

\* C26: two checks apply to an opcode whatever the conditional state, before
\* the branch-skip decision: stepping over OP_VERIF or OP_VERNOTIF fails
\* with ReservedOpcode, and stepping over an opcode whose immediate data
\* exceeds 520 bytes fails with ElementTooBig, in both cases also when the
\* current branch is not executing.
C26_AlwaysChecked ==
  [][ /\ (Parses /\ ParsedOp \in {OP_VERIF, OP_VERNOTIF}) =>
           StepFails("ErrReservedOpcode")
      /\ (Parses /\ ParsedOp \notin {OP_VERIF, OP_VERNOTIF}
          /\ Len(ParsedData) > MaxScriptElementSize) =>
           StepFails("ErrElementTooBig") ]_vars

\* OP_VERNOTIF in a branch that is not executing failed the Step
C26_Witness ==
  /\ pc = "returned" /\ result = "ErrReservedOpcode"
  /\ ~isBranchExecuting(vm)
  /\ vm.tokenizer.op = OP_VERNOTIF

\* OP_VERIF in a branch that is not executing
C26_Witness_Verif ==
  /\ pc = "returned" /\ result = "ErrReservedOpcode"
  /\ ~isBranchExecuting(vm)
  /\ vm.tokenizer.op = OP_VERIF

\* a push of 521 bytes in a branch that is not executing failed the Step
C26_Witness_TooBig ==
  /\ pc = "returned" /\ result = "ErrElementTooBig"
  /\ ~isBranchExecuting(vm)
  /\ Len(vm.tokenizer.data) = MaxScriptElementSize + 1

\* a push of 520 bytes passed
C26_Witness_Fits ==
  /\ pc = "loop" /\ err = "nil"
  /\ Len(vm.tokenizer.data) = MaxScriptElementSize
  /\ vm.dstack # <<>> /\ Top(vm.dstack) = vm.tokenizer.data
\* the Step of the transition is over an opcode of a branch that is not
\* executing which is no conditional, not always illegal and not oversize
SkipsOpcode ==
  /\ Parses /\ ~isBranchExecuting(vm)
  /\ ~isOpcodeConditional(ParsedOp)
  /\ ~isOpcodeAlwaysIllegal(ParsedOp)
  /\ Len(ParsedData) <= MaxScriptElementSize

\* only the program counter has advanced
OnlyAdvanced ==
  vm' = [vm EXCEPT !.tokenizer = TokNext(vm.tokenizer).t, !.opcodeIdx = @ + 1]

\* what its handler makes of the conditional stack c when the conditional
\* opcode op is met in a branch that is not executing
Dispatched(op, c) ==
  IF op \in {OP_IF, OP_NOTIF} THEN Append(c, OpCondSkip)
  ELSE IF op = OP_ENDIF THEN Front(c)
  ELSE IF Last(c) = OpCondFalse THEN Append(Front(c), OpCondTrue)
  ELSE c

\* C27 as the specification states it: a Step over any such opcode returns
\* no error.
C27_Skipped_Original ==
  [][ SkipsOpcode => (err' = "nil" /\ OnlyAdvanced) ]_vars

\* C27: when the top of cond_stack is not TRUE, a Step over any opcode other
\* than OP_IF, OP_NOTIF, OP_ELSE, OP_ENDIF (and other than an always-illegal
\* or oversize one) leaves dstack, astack, cond_stack and the taproot
\* context unchanged, only the program counter advances; it returns no error
\* unless the opcode is the last one of its script, where Step fails with
\* UnbalancedConditional, or the combined stack depth is over its limit; the
\* four conditional opcodes are always dispatched to their handler.
C27_Skipped ==
  [][ /\ (SkipsOpcode /\ Depth(vm.dstack) + Depth(vm.astack) <= MaxStackSize) =>
           /\ OnlyAdvanced
           /\ ~done'
           /\ err' = (IF LastOpcode THEN "ErrUnbalancedConditional" ELSE "nil")
      /\ (Parses /\ ~isBranchExecuting(vm) /\ isOpcodeConditional(ParsedOp)) =>
           /\ vm'.condStack = Dispatched(ParsedOp, vm.condStack)
           /\ vm'.dstack = vm.dstack
           /\ err' \in {"nil", "ErrUnbalancedConditional"}
           /\ (err' = "nil") <=> (~LastOpcode \/ Len(vm'.condStack) = 0) ]_vars

\* OP_DROP was stepped over in a branch that is not executing: the empty
\* data stack it would have failed on is as it was
C27_Witness ==
  /\ pc = "loop" /\ err = "nil" /\ ~done
  /\ ~isBranchExecuting(vm)
  /\ vm.tokenizer.op = OP_DROP
  /\ vm.dstack = <<>>

\* a conditional opcode met in a branch that is not executing was dispatched
C27_Witness_Nested ==
  /\ pc = "loop" /\ err = "nil"
  /\ vm.tokenizer.op = OP_IF
  /\ Len(vm.condStack) = 2 /\ Last(vm.condStack) = OpCondSkip

\* the skipped opcode was the last one of its script
C27_Witness_Last ==
  /\ pc = "returned" /\ result = "ErrUnbalancedConditional"
  /\ ~isBranchExecuting(vm)
  /\ vm.tokenizer.op = OP_1 /\ vm.dstack = <<>>
\* the first n - 2 elements of the witness of the validated input, the
\* annex removed
LeafStack ==
  [i \in 1..(Len(StrippedWitness) - 2) |-> StrippedWitness[i]]

\* the engine is at the first opcode of the leaf script of a scriptpath spend
AtLeafStart ==
  /\ pc = "loop" /\ ~done /\ err = "nil"
  /\ Len(vm.scripts) = 3 /\ vm.scriptIdx = 2 /\ vm.opcodeIdx = 0
  /\ vm.tokenizer.offset = 0

\* the Step that enters the leaf script replaces the data stack the pubkey
\* script left
EntersLeaf ==
  (Steps /\ AppendsLeaf) =>
    /\ Executed.vm.dstack = << <<1>>, vm.witnessProgram >>
    /\ vm'.dstack = LeafStack

\* the leaf script starts on the first n - 2 witness elements
StartsOnLeafStack ==
  AtLeafStart =>
    /\ Len(StrippedWitness) >= 2
    /\ vm.tokenizer.script = StrippedWitness[Len(StrippedWitness) - 1]
    /\ vm.dstack = LeafStack
    /\ Depth(vm.dstack) = Len(StrippedWitness) - 2

\* C28: on a scriptpath spend whose witness has n elements after annex
\* removal, the leaf script starts executing with dstack equal to exactly
\* the first n - 2 witness elements in witness order (the last of them on
\* top): the items pushed by the pubkey script are discarded, and neither
\* the annex, the witness script nor the control block is on the stack.
C28_LeafStack == []StartsOnLeafStack /\ [][EntersLeaf]_vars

\* a leaf script starts on the two stack elements of a witness
C28_Witness ==
  /\ AtLeafStart
  /\ Len(TxIn.Witness) = 4
  /\ vm.dstack = << TxIn.Witness[1], TxIn.Witness[2] >>

\* a leaf script starts on the one stack element of a witness with annex
C28_Witness_Annex ==
  /\ AtLeafStart
  /\ Len(TxIn.Witness) = 4 /\ TxIn.Witness[4] = Annex
  /\ vm.dstack = << TxIn.Witness[1] >>

\* a leaf script starts on an empty stack
C28_Witness_Empty ==
  /\ AtLeafStart
  /\ Len(TxIn.Witness) = 2
  /\ vm.dstack = <<>>
\* the validated input is a scriptpath spend of a taproot output whose
\* control block carries a leaf version other than the base one
OtherLeafVersion ==
  /\ ValidIndex /\ IsPayToTaproot(args.scriptPubKey)
  /\ TxIn.SignatureScript = <<>>
  /\ Len(StrippedWitness) >= 2
  /\ Len(Last(StrippedWitness)) > 0
  /\ Last(StrippedWitness)[1] - (Last(StrippedWitness)[1] % 2) # BaseLeafVersion

\* C29: a scriptpath spend whose control block carries a leaf version other
\* than the base leaf version is rejected: the witness script is never
\* appended to scripts, none of its opcodes is executed, and Execute returns
\* an error.
C29_LeafVersion ==
  OtherLeafVersion =>
    /\ pc # "noengine"
    /\ pc # "new" => (Len(vm.scripts) = 2 /\ vm.scripts[2] = args.scriptPubKey)
    /\ pc # "new" => (vm.scriptIdx <= 2 /\ vm.tokenizer.script = args.scriptPubKey)
    /\ pc = "returned" => result \notin {"nil", "none"}
    /\ (pc = "loop" /\ vm.scriptIdx = 2) => err # "nil"

\* the leaf commitment verified and the leaf version was what rejected the
\* spend
C29_Witness ==
  /\ OtherLeafVersion
  /\ pc = "returned" /\ result = "ErrDiscourageUpgradeableTaprootVersion"
  /\ VerifyTaprootLeafCommitment(Last(StrippedWitness), vm.witnessProgram,
                                 StrippedWitness[Len(StrippedWitness) - 1]) = "nil"
  /\ Len(vm.scripts) = 2

\* a control block of another leaf version whose commitment does not verify
C29_Witness_Commitment ==
  /\ OtherLeafVersion
  /\ pc = "returned" /\ result = "ErrTaprootMerkleProofInvalid"
\* NewEngine was given a signature script or a pubkey script over the
\* maximum script size on a valid input index, the signature script made of
\* pushes that parse
OversizeScript ==
  /\ ValidIndex
  /\ IsPushOnlyScript(TxIn.SignatureScript)
  /\ checkScriptParses(TxIn.SignatureScript) = "nil"
  /\ \/ Len(TxIn.SignatureScript) > MaxScriptSize
     \/ Len(args.scriptPubKey) > MaxScriptSize

\* the scripts of the engine, once it exists
Scripts == IF pc \in {"new", "noengine"} THEN <<>> ELSE vm.scripts

\* C30 as the specification states it: every script the VM executes,
\* including the leaf script appended during scriptpath setup, is at most
\* 10000 bytes long and has been walked to its end by the tokenizer without
\* error before its first opcode is executed; a signature or pubkey script
\* over 10000 bytes makes NewEngine fail with ScriptTooBig.
C30_ScriptsChecked ==
  /\ \A i \in 1..Len(Scripts) :
       /\ Len(Scripts[i]) <= MaxScriptSize
       /\ checkScriptParses(Scripts[i]) = "nil"
  /\ (OversizeScript /\ pc # "new") => (pc = "noengine" /\ result = "ErrScriptTooBig")

\* what the code keeps of C30: every script of the engine parses, and the
\* signature script and the pubkey script are within the maximum size
C30_ScriptsParse ==
  /\ \A i \in 1..Len(Scripts) : checkScriptParses(Scripts[i]) = "nil"
  /\ \A i \in 1..Len(Scripts) : i <= 2 => Len(Scripts[i]) <= MaxScriptSize
  /\ (OversizeScript /\ pc # "new") => (pc = "noengine" /\ result = "ErrScriptTooBig")

\* a leaf script of 10001 bytes was appended and its first opcode executed
C30_Witness ==
  /\ pc = "loop" /\ err = "nil"
  /\ Len(vm.scripts) = 3
  /\ Len(vm.scripts[3]) = MaxScriptSize + 1
  /\ vm.scriptIdx = 2 /\ vm.opcodeIdx = 1
  /\ vm.tokenizer.script = vm.scripts[3]

\* ... and run to its end, and Execute accepted the spend
C30_Witness_Accepted ==
  /\ pc = "returned" /\ result = "nil"
  /\ Len(vm.scripts) = 3
  /\ Len(vm.scripts[3]) = MaxScriptSize + 1
  /\ vm.scriptIdx = 3 /\ TokDone(vm.tokenizer)
\* the n-th element of dstack from the top is a script number
IsNumber(n) == Depth(vm.dstack) >= n /\ MakeScriptNum(FromTop(n)).err = "nil"

Number(n) == MakeScriptNum(FromTop(n)).n

\* the group index the opcode takes is valid
ValidGroup(k) == k >= 0 /\ k < Len(vm.assetPacket.Groups)

\* the transition executes op, one of OP_INSPECTASSETGROUPNUM and
\* OP_INSPECTASSETGROUPSUM, with the source on top of a valid group index,
\* and room on the stacks for its pushes
ExecutesAggregate(op) ==
  /\ ExecutesOpcode(op)
  /\ ~vm.assetPacket.isNil
  /\ IsNumber(1) /\ IsNumber(2)
  /\ ValidGroup(Number(2))
  /\ Depth(vm.dstack) + Depth(vm.astack) <= MaxStackSize

\* the element the opcode pushes for the items: their number as a script
\* number, or their sum as eight little-endian bytes
Aggregate(op, items) ==
  IF op = OP_INSPECTASSETGROUPNUM THEN scriptNumBytes(Len(items))
  ELSE PutUint64(AsUint64(MathSum(items)))

\* the elements the opcode pushes for the source s of the group g
AggregateItems(op, g, s) ==
  IF s = 0 THEN << Aggregate(op, g.Inputs) >>
  ELSE IF s = 1 THEN << Aggregate(op, g.Outputs) >>
  ELSE << Aggregate(op, g.Inputs), Aggregate(op, g.Outputs) >>

\* the sums the opcode aggregates for the source s are within 2^64 - 1
SumsFit(op, g, s) ==
  \/ op = OP_INSPECTASSETGROUPNUM
  \/ /\ s \in {0, 2} => ~ExceedsUint64(g.Inputs)
     /\ s \in {1, 2} => ~ExceedsUint64(g.Outputs)

\* dstack without the n elements on top
Below(n) == SubSeq(vm.dstack, 1, Depth(vm.dstack) - n)

\* C31: INSPECTASSETGROUPNUM and INSPECTASSETGROUPSUM pop the source
\* selector first and K second; for a valid K, source 0 pushes the input
\* count/sum, source 1 pushes the output count/sum, source 2 pushes the
\* input value and then the output value (output value on top), and any
\* other source fails with an invalid-source error and pushes nothing.
C31_Sources ==
  [][ \A op \in {OP_INSPECTASSETGROUPNUM, OP_INSPECTASSETGROUPSUM} :
      ExecutesAggregate(op) =>
        IF Number(1) \in 0..2
          THEN SumsFit(op, Group(vm, Number(2)), Number(1)) =>
                 /\ err' = "nil"
                 /\ vm'.dstack =
                      Below(2) \o AggregateItems(op, Group(vm, Number(2)), Number(1))
          ELSE /\ err' = "ErrInvalidIndex" /\ pc' = "returned"
               /\ vm'.dstack = Below(2) ]_vars

\* INSPECTASSETGROUPSUM with source 2 on a group without inputs whose
\* outputs sum up to 7: 0 and, on top, 7
C31_Witness ==
  /\ pc = "loop" /\ err = "nil" /\ nSteps = 1
  /\ args.scriptPubKey = <<OP_INSPECTASSETGROUPSUM>>
  /\ args.assetPacket = twinGroupsPacket
  /\ args.stack = << <<2>>, <<2>> >>
  /\ vm.dstack = << PutUint64(Amount(0)), PutUint64(Amount(7)) >>

\* INSPECTASSETGROUPNUM with source 1 on the same group: one output
C31_Witness_Num ==
  /\ pc = "loop" /\ err = "nil" /\ nSteps = 1
  /\ args.scriptPubKey = <<OP_INSPECTASSETGROUPNUM>>
  /\ args.assetPacket = twinGroupsPacket
  /\ args.stack = << <<2>>, <<1>> >>
  /\ vm.dstack = << <<1>> >>

\* the source 3 failed and left nothing
C31_Witness_Source ==
  /\ pc = "returned" /\ result = "ErrInvalidIndex" /\ nSteps = 1
  /\ args.scriptPubKey = <<OP_INSPECTASSETGROUPNUM>>
  /\ args.assetPacket = makeTestAssetPacket
  /\ args.stack = << <<1>>, <<3>> >>
  /\ vm.dstack = <<>>
\* the transition executes OP_INSPECTASSETGROUP with the source on top of
\* the item index on top of a valid group index
ExecutesGroupItem ==
  /\ ExecutesOpcode(OP_INSPECTASSETGROUP)
  /\ ~vm.assetPacket.isNil
  /\ IsNumber(1) /\ IsNumber(2) /\ IsNumber(3)
  /\ ValidGroup(Number(3))
  /\ Depth(vm.dstack) + Depth(vm.astack) < MaxStackSize


\* the items of the source s of the group g
Items(g, s) == IF s = 0 THEN g.Inputs ELSE g.Outputs

\* the items the opcode is asked about: those of the source, of the group
Asked == Items(Group(vm, Number(3)), Number(1))

\* the elements that describe the item, bottom to top
Described(item, s) ==
  IF s = 1
    THEN << scriptNumBytes(item.Type), scriptNumBytes(item.OutputIndex),
            PutUint64(item.Amount) >>
  ELSE IF item.Type = AssetInputTypeLocal
    THEN << scriptNumBytes(AssetInputTypeLocal), scriptNumBytes(item.InputIndex),
            PutUint64(item.Amount) >>
  ELSE << scriptNumBytes(AssetInputTypeIntent), item.Txid,
          scriptNumBytes(item.OutputIndex), PutUint64(item.Amount) >>

\* C32: INSPECTASSETGROUP pops source, J, K in that order and pushes, bottom
\* to top: for a Local input (type 1, input index, amount_le64); for an
\* Intent input (type 2, txid32, output index, amount_le64); for an output of
\* either variant (type, output index, amount_le64). It fails and pushes
\* nothing when J < 0, when J >= the number of inputs (source 0) or outputs
\* (source 1) of group K, and when source is neither 0 nor 1.
C32_GroupItem ==
  [][ ExecutesGroupItem =>
        IF Number(1) \in {0, 1} /\ Number(2) >= 0 /\ Number(2) < Len(Asked)
          THEN /\ err' = "nil"
               /\ vm'.dstack = Below(3) \o Described(Asked[Number(2) + 1], Number(1))
          ELSE /\ err' = "ErrInvalidIndex" /\ pc' = "returned"
               /\ vm'.dstack = Below(3) ]_vars

\* the Intent input 1 of the group 0 of the test packet
C32_Witness ==
  /\ pc = "loop" /\ err = "nil" /\ nSteps = 1
  /\ args.scriptPubKey = <<OP_INSPECTASSETGROUP>>
  /\ args.assetPacket = makeTestAssetPacket
  /\ args.stack = << <<>>, <<1>>, <<>> >>
  /\ vm.dstack = << <<2>>, testIntentTxid, <<2>>, PutUint64(Amount(500)) >>

\* the Intent output 1 of the same group
C32_Witness_Output ==
  /\ pc = "loop" /\ err = "nil" /\ nSteps = 1
  /\ args.scriptPubKey = <<OP_INSPECTASSETGROUP>>
  /\ args.assetPacket = makeTestAssetPacket
  /\ args.stack = << <<>>, <<1>>, <<1>> >>
  /\ vm.dstack = << <<2>>, <<1>>, PutUint64(Amount(700)) >>

\* J = 2 is the number of inputs of the group 0
C32_Witness_Range ==
  /\ pc = "returned" /\ result = "ErrInvalidIndex" /\ nSteps = 1
  /\ args.scriptPubKey = <<OP_INSPECTASSETGROUP>>
  /\ args.assetPacket = makeTestAssetPacket
  /\ args.stack = << <<>>, <<2>>, <<>> >>
  /\ vm.dstack = <<>>
CountOpcodes == {OP_INSPECTOUTASSETCOUNT, OP_INSPECTINASSETCOUNT}
AtOpcodes == {OP_INSPECTOUTASSETAT, OP_INSPECTINASSETAT}
LookupOpcodes == {OP_INSPECTOUTASSETLOOKUP, OP_INSPECTINASSETLOOKUP}

\* the map the opcode reads
AssetsOf(op) ==
  IF op \in {OP_INSPECTOUTASSETCOUNT, OP_INSPECTOUTASSETAT, OP_INSPECTOUTASSETLOOKUP}
    THEN vm.assetPacket.OutputAssets
    ELSE vm.assetPacket.InputAssets

\* the entries the map records for the output or input o >= 0
Recorded(op, o) ==
  IF <<o % Limb, o \div Limb>> \in DOMAIN AssetsOf(op)
    THEN AssetsOf(op)[<<o % Limb, o \div Limb>>]
    ELSE <<>>

\* the transition executes op over a packet, with room for its pushes
ExecutesOnPacket(op) ==
  /\ ExecutesOpcode(op)
  /\ ~vm.assetPacket.isNil
  /\ Depth(vm.dstack) + Depth(vm.astack) < MaxStackSize

\* the entry has the asset id (txid, gidx)
HasID(entry, txid, gidx) == entry.AssetID.Txid = txid /\ entry.AssetID.Gidx = gidx

\* the entries with the asset id
WithID(entries, txid, gidx) ==
  { i \in 1..Len(entries) : HasID(entries[i], txid, gidx) }

\* the first of them
FirstWithID(entries, txid, gidx) ==
  entries[CHOOSE i \in WithID(entries, txid, gidx) :
            \A j \in WithID(entries, txid, gidx) : i <= j]

\* COUNT pushes the number of entries recorded, 0 when there are none
CountPushed ==
  \A op \in CountOpcodes :
    ExecutesOnPacket(op) /\ IsNumber(1) /\ Number(1) >= 0 =>
      /\ err' = "nil"
      /\ vm'.dstack = Below(1) \o << scriptNumBytes(Len(Recorded(op, Number(1)))) >>

\* AT succeeds exactly when 0 <= T < that count and pushes the entry T
AtPushed ==
  \A op \in AtOpcodes :
    ExecutesOnPacket(op) /\ IsNumber(1) /\ IsNumber(2) /\ Number(2) >= 0 =>
      IF Number(1) >= 0 /\ Number(1) < Len(Recorded(op, Number(2)))
        THEN /\ err' = "nil"
             /\ vm'.dstack =
                  Below(2) \o
                  << Recorded(op, Number(2))[Number(1) + 1].AssetID.Txid,
                     scriptNumBytes(Recorded(op, Number(2))[Number(1) + 1].AssetID.Gidx),
                     PutUint64(Recorded(op, Number(2))[Number(1) + 1].Amount) >>
        ELSE err' # "nil" /\ pc' = "returned"

\* LOOKUP pushes the amount of the first entry with the id, -1 exactly when
\* there is none
LookupPushed ==
  \A op \in LookupOpcodes :
    /\ ExecutesOnPacket(op) /\ IsNumber(1) /\ Number(1) \in 0..(Limb - 1)
    /\ Depth(vm.dstack) >= 3 /\ Len(FromTop(2)) = 32
    /\ IsNumber(3) /\ Number(3) >= 0
    => /\ err' = "nil"
       /\ vm'.dstack =
            Below(3) \o
            << IF WithID(Recorded(op, Number(3)), FromTop(2), Number(1)) = {}
                 THEN scriptNumBytes(-1)
                 ELSE PutUint64(FirstWithID(Recorded(op, Number(3)),
                                            FromTop(2), Number(1)).Amount) >>

\* C33: per-output asset queries are mutually consistent, and likewise
\* per-input ones: INSPECTOUTASSETCOUNT(O) pushes the number of entries
\* recorded for O and pushes 0 without error when O has none;
\* INSPECTOUTASSETAT(O, T) succeeds exactly when 0 <= T < that count and then
\* pushes (txid32, gidx, amount_le64) of entry T; INSPECTOUTASSETLOOKUP(O, id)
\* pushes the amount of the first entry of O whose AssetId equals id, and the
\* script number -1 exactly when no entry of O has that id.
C33_PerOutput == [][CountPushed /\ AtPushed /\ LookupPushed]_vars

\* the lookup of an id that the entries 0 and 2 of the output 0 have pushed
\* the amount of the entry 0
C33_Witness ==
  /\ pc = "loop" /\ err = "nil" /\ nSteps = 1
  /\ args.scriptPubKey = <<OP_INSPECTOUTASSETLOOKUP>>
  /\ args.assetPacket = twinGroupsPacket
  /\ args.stack = << <<>>, testAssetTxid, <<>> >>
  /\ vm.dstack = << PutUint64(Amount(5)) >>

\* the entry 1 of the input 1
C33_Witness_At ==
  /\ pc = "loop" /\ err = "nil" /\ nSteps = 1
  /\ args.scriptPubKey = <<OP_INSPECTINASSETAT>>
  /\ args.assetPacket = twinGroupsPacket
  /\ args.stack = << <<1>>, <<1>> >>
  /\ vm.dstack = << testControlTxid, <<1>>, PutUint64(Amount(8)) >>

\* an output without entries has the count 0
C33_Witness_Count ==
  /\ pc = "loop" /\ err = "nil" /\ nSteps = 1
  /\ args.scriptPubKey = <<OP_INSPECTOUTASSETCOUNT>>
  /\ args.assetPacket = makeTestAssetPacket
  /\ args.stack = << <<3>> >>
  /\ vm.dstack = << <<>> >>

\* no entry of the output 0 has the id: -1
C33_Witness_None ==
  /\ pc = "loop" /\ err = "nil" /\ nSteps = 1
  /\ args.scriptPubKey = <<OP_INSPECTOUTASSETLOOKUP>>
  /\ args.assetPacket = twinGroupsPacket
  /\ args.stack = << <<>>, testAssetTxid, <<1>> >>
  /\ vm.dstack = << <<129>> >>
\* COUNT of a negative index pushes 0
NegativeCount ==
  \A op \in CountOpcodes :
    ExecutesOnPacket(op) /\ IsNumber(1) /\ Number(1) < 0 =>
      err' = "nil" /\ vm'.dstack = Below(1) \o << scriptNumBytes(0) >>

\* AT of a negative index fails
NegativeAt ==
  \A op \in AtOpcodes :
    ExecutesOnPacket(op) /\ IsNumber(1) /\ IsNumber(2) /\ Number(2) < 0 =>
      err' # "nil" /\ pc' = "returned"

\* LOOKUP of a negative index pushes -1
NegativeLookup ==
  \A op \in LookupOpcodes :
    /\ ExecutesOnPacket(op) /\ IsNumber(1) /\ Number(1) \in 0..(Limb - 1)
    /\ Depth(vm.dstack) >= 3 /\ Len(FromTop(2)) = 32
    /\ IsNumber(3) /\ Number(3) < 0
    => err' = "nil" /\ vm'.dstack = Below(3) \o << scriptNumBytes(-1) >>

\* C36: a negative output index O or input index I given to the per-output
\* and per-input asset opcodes (COUNT, AT, LOOKUP) never returns data of any
\* packet entry: it behaves like an index with no entries (COUNT pushes 0, AT
\* fails, LOOKUP pushes -1), whatever unsigned 32-bit keys the packet's
\* input_assets and output_assets maps contain.
C36_NegativeIndex == [][NegativeCount /\ NegativeAt /\ NegativeLookup]_vars

\* INSPECTOUTASSETLOOKUP with O = -1 over a packet whose output_assets hold
\* an entry under the key 2^32 - 1 pushed the amount of that entry
C36_Witness ==
  /\ pc = "loop" /\ err = "nil" /\ nSteps = 1
  /\ args.scriptPubKey = <<OP_INSPECTOUTASSETLOOKUP>>
  /\ args.assetPacket = twinGroupsPacket
  /\ args.stack = << <<129>>, testAssetTxid, <<>> >>
  /\ vm.dstack = << PutUint64(Amount(3)) >>

\* INSPECTINASSETCOUNT with I = -1 pushed the count 1
C36_Witness_Count ==
  /\ pc = "loop" /\ err = "nil" /\ nSteps = 1
  /\ args.scriptPubKey = <<OP_INSPECTINASSETCOUNT>>
  /\ args.assetPacket = twinGroupsPacket
  /\ args.stack = << <<129>> >>
  /\ vm.dstack = << <<1>> >>

\* INSPECTINASSETAT with I = -1 and T = 0 pushed the entry
C36_Witness_At ==
  /\ pc = "loop" /\ err = "nil" /\ nSteps = 1
  /\ args.scriptPubKey = <<OP_INSPECTINASSETAT>>
  /\ args.assetPacket = twinGroupsPacket
  /\ args.stack = << <<129>>, <<>> >>
  /\ vm.dstack = << testControlTxid, <<1>>, PutUint64(Amount(2)) >>

\* over packets without such a key a negative index has no entries
C36_Witness_NoKey ==
  /\ pc = "loop" /\ err = "nil" /\ nSteps = 1
  /\ args.scriptPubKey = <<OP_INSPECTOUTASSETCOUNT>>
  /\ args.assetPacket = makeTestAssetPacket
  /\ args.stack = << <<129>> >>
  /\ vm.dstack = << <<>> >>
IntentCountOpcodes == {OP_INSPECTGROUPINTENTOUTCOUNT, OP_INSPECTGROUPINTENTINCOUNT}
IntentItemOpcodes == {OP_INSPECTGROUPINTENTOUT, OP_INSPECTGROUPINTENTIN}

\* the items of the group the opcode enumerates
Enumerated(op, g) ==
  IF op \in {OP_INSPECTGROUPINTENTOUTCOUNT, OP_INSPECTGROUPINTENTOUT}
    THEN g.Outputs ELSE g.Inputs

\* the positions of the Intent items among the items
IntentPositions(items) ==
  { i \in 1..Len(items) : items[i].Type = AssetOutputTypeIntent }

\* the j-th Intent item in the declared order, j counted from 0
IntentItem(items, j) ==
  items[CHOOSE i \in IntentPositions(items) :
          Cardinality({ h \in IntentPositions(items) : h < i }) = j]

\* the elements that describe the Intent item, bottom to top
IntentDescribed(op, item) ==
  IF op = OP_INSPECTGROUPINTENTOUT
    THEN << scriptNumBytes(item.OutputIndex), PutUint64(item.Amount) >>
    ELSE << item.Txid, scriptNumBytes(item.OutputIndex), PutUint64(item.Amount) >>

\* the COUNT opcodes push the number of Intent items of the group
IntentCountPushed ==
  \A op \in IntentCountOpcodes :
    ExecutesOnPacket(op) /\ IsNumber(1) /\ ValidGroup(Number(1)) =>
      /\ err' = "nil"
      /\ vm'.dstack =
           Below(1) \o
           << scriptNumBytes(Cardinality(IntentPositions(
                               Enumerated(op, Group(vm, Number(1)))))) >>

\* the item opcodes succeed exactly when 0 <= J < that number and push the
\* J-th Intent item
IntentItemPushed ==
  \A op \in IntentItemOpcodes :
    ExecutesOnPacket(op) /\ IsNumber(1) /\ IsNumber(2) /\ ValidGroup(Number(2)) =>
      IF /\ Number(1) >= 0
         /\ Number(1) < Cardinality(IntentPositions(Enumerated(op, Group(vm, Number(2)))))
        THEN /\ err' = "nil"
             /\ vm'.dstack =
                  Below(2) \o
                  IntentDescribed(op, IntentItem(Enumerated(op, Group(vm, Number(2))),
                                                 Number(1)))
        ELSE err' # "nil" /\ pc' = "returned" /\ vm'.dstack = Below(2)

\* C34: intent enumeration: INSPECTGROUPINTENTOUTCOUNT(K) pushes the number
\* of outputs of group K whose type is Intent; INSPECTGROUPINTENTOUT(K, J)
\* succeeds exactly when 0 <= J < that count and then pushes (output index,
\* amount_le64) of the J-th Intent output in the packet's declared order,
\* skipping Local entries; the same holds for INSPECTGROUPINTENTINCOUNT and
\* INSPECTGROUPINTENTIN, which pushes (txid32, output index, amount_le64).
C34_Intents == [][IntentCountPushed /\ IntentItemPushed]_vars

\* the Intent output 1 of a group with the outputs Local, Intent, Local,
\* Intent is the last output
C34_Witness ==
  /\ pc = "loop" /\ err = "nil" /\ nSteps = 1
  /\ args.scriptPubKey = <<OP_INSPECTGROUPINTENTOUT>>
  /\ args.assetPacket = twinGroupsPacket
  /\ args.stack = << <<1>>, <<1>> >>
  /\ vm.dstack = << <<4>>, PutUint64(Amount(17)) >>

\* the Intent input 1 of a group with the inputs Intent, Local, Intent
C34_Witness_In ==
  /\ pc = "loop" /\ err = "nil" /\ nSteps = 1
  /\ args.scriptPubKey = <<OP_INSPECTGROUPINTENTIN>>
  /\ args.assetPacket = twinGroupsPacket
  /\ args.stack = << <<1>>, <<1>> >>
  /\ vm.dstack = << testControlTxid, <<5>>, PutUint64(Amount(13)) >>

\* two of the four outputs are Intent outputs
C34_Witness_Count ==
  /\ pc = "loop" /\ err = "nil" /\ nSteps = 1
  /\ args.scriptPubKey = <<OP_INSPECTGROUPINTENTOUTCOUNT>>
  /\ args.assetPacket = twinGroupsPacket
  /\ args.stack = << <<1>> >>
  /\ vm.dstack = << <<2>> >>

\* J = 2 is the number of Intent outputs
C34_Witness_Range ==
  /\ pc = "returned" /\ result = "ErrInvalidIndex" /\ nSteps = 1
  /\ args.scriptPubKey = <<OP_INSPECTGROUPINTENTOUT>>
  /\ args.assetPacket = twinGroupsPacket
  /\ args.stack = << <<1>>, <<2>> >>
\* the indexes of the groups with the txid and, as an integer, the group
\* index
GroupsWith(txid, g) ==
  { k \in 0..(Len(vm.assetPacket.Groups) - 1) :
      Group(vm, k).AssetID.Txid = txid /\ Group(vm, k).AssetID.Gidx = g }

\* the lowest of them, -1 when there is none
LowestWith(txid, g) ==
  IF GroupsWith(txid, g) = {} THEN -1
  ELSE CHOOSE k \in GroupsWith(txid, g) : \A h \in GroupsWith(txid, g) : k <= h

\* C35: FINDASSETGROUPBYASSETID pushes an index k >= 0 only if the popped
\* txid equals group k's txid and the popped group-index number, as an
\* integer, equals group k's 16-bit group index, and then k is the lowest
\* such index; for every other popped pair, including a group-index number
\* that is negative or above 65535, it pushes -1. A popped txid whose length
\* is not 32 bytes is an error.
C35_Find ==
  [][ ExecutesOnPacket(OP_FINDASSETGROUPBYASSETID) /\ IsNumber(1) /\ Depth(vm.dstack) >= 2
      => IF Len(FromTop(2)) # 32
           THEN err' # "nil" /\ pc' = "returned"
           ELSE /\ err' = "nil"
                /\ vm'.dstack =
                     Below(2) \o << scriptNumBytes(LowestWith(FromTop(2), Number(1))) >> ]_vars

\* the popped number -1 found the group 0, whose group index is 65535
C35_Witness ==
  /\ pc = "loop" /\ err = "nil" /\ nSteps = 1
  /\ args.scriptPubKey = <<OP_FINDASSETGROUPBYASSETID>>
  /\ args.assetPacket = twinGroupsPacket
  /\ args.stack = << testAssetTxid, <<129>> >>
  /\ vm.dstack = << <<>> >>

\* the popped number 65536 found the group 0, whose group index is 0
C35_Witness_Above ==
  /\ pc = "loop" /\ err = "nil" /\ nSteps = 1
  /\ args.scriptPubKey = <<OP_FINDASSETGROUPBYASSETID>>
  /\ args.assetPacket = makeTestAssetPacket
  /\ args.stack = << testAssetTxid, <<0, 0, 1>> >>
  /\ vm.dstack = << <<>> >>

\* for a popped number within 0 .. 65535 the claim holds: the lowest group
\* with the asset id, -1 when there is none, an error for a txid of 31 bytes
C35_FindInRange ==
  [][ /\ ExecutesOnPacket(OP_FINDASSETGROUPBYASSETID) /\ IsNumber(1)
      /\ Depth(vm.dstack) >= 2 /\ Number(1) \in 0..(Limb - 1)
      => IF Len(FromTop(2)) # 32
           THEN err' # "nil" /\ pc' = "returned"
           ELSE /\ err' = "nil"
                /\ vm'.dstack =
                     Below(2) \o << scriptNumBytes(LowestWith(FromTop(2), Number(1))) >> ]_vars
(***************************************************************************)
(* The tapscript signature verifier, one per engine, over the signature    *)
(* cache the engines share.  The steps of verifySig are separate           *)
(* transitions: the cache synchronises its own operations (Exists, Add),   *)
(* not the verification as a whole.                                        *)
(***************************************************************************)
NoVerifier ==
  [pkBytes |-> <<>>, fullSigBytes |-> <<>>, sig |-> <<>>, hashType |-> 0,
   tx |-> [Version |-> 0, TxIn |-> <<>>], inputIndex |-> 0, annex |-> <<>>,
   hasSigCache |-> FALSE]

\* newTaprootSigVerifier once the key and the signature are parsed
verifierParsed(p, pkBytes, fullSigBytes, tx, inputIndex, hasCache, annex) ==
  IF p.err # "nil" THEN [err |-> p.err, t |-> NoVerifier]
  ELSE [err |-> "nil",
        t |-> [pkBytes |-> pkBytes, fullSigBytes |-> fullSigBytes, sig |-> p.sig,
               hashType |-> p.hashType, tx |-> tx, inputIndex |-> inputIndex,
               annex |-> annex, hasSigCache |-> hasCache]]

\* newTaprootSigVerifier
newTaprootSigVerifier(pkBytes, fullSigBytes, tx, inputIndex, hasCache, annex) ==
  Let(LAMBDA p : verifierParsed(p, pkBytes, fullSigBytes, tx, inputIndex, hasCache, annex),
      parseTaprootSigAndPubKey(pkBytes, fullSigBytes))

\* newBaseTapscriptSigVerifier parsing a key of any length but 0
newBaseTapscriptSigVerifier_Lenient(pkBytes, rawSig, v) ==
  IF Len(pkBytes) = 0 THEN [err |-> "ErrTaprootPubkeyIsEmpty", t |-> NoVerifier]
  ELSE newTaprootSigVerifier(pkBytes, rawSig, v.tx, v.txIdx, v.hasSigCache,
                             v.taprootCtx.annex)

\* newBaseTapscriptSigVerifier
newBaseTapscriptSigVerifier(pkBytes, rawSig, v) ==
  IF Len(pkBytes) = 0 THEN [err |-> "ErrTaprootPubkeyIsEmpty", t |-> NoVerifier]
  ELSE IF Len(pkBytes) = 32
    THEN newTaprootSigVerifier(pkBytes, rawSig, v.tx, v.txIdx, v.hasSigCache,
                               v.taprootCtx.annex)
  ELSE [err |-> "ErrDiscourageUpgradeablePubKeyType", t |-> NoVerifier]

\* the arguments baseTapscriptSigVerifier.Verify gives to
\* txscript.CalcTaprootSignatureHash (the hash cache and the prev-out
\* fetcher, which the transaction determines, left out)
sigHashArgs(b) == <<b.hashType, b.tx, b.inputIndex>>

\* the digest of those arguments, -1 for an error
sigHashOf(a) == CalcTaprootSignatureHash(a[1], a[2], a[3])

\* the lookup of verifySig finding the triple of any digest
verifySigExists_AnyDigest(t, sigHash, cache) ==
  /\ t.hasSigCache
  /\ \E e \in cache : e[2] = t.fullSigBytes /\ e[3] = t.pkBytes

\* the lookup of verifySig: sigCache.Exists
verifySigExists(t, sigHash, cache) ==
  t.hasSigCache /\ <<sigHash, t.fullSigBytes, t.pkBytes>> \in cache

\* the verification of verifySig: sig.Verify
verifySigValid(t, sigHash) == SchnorrVerify(t.sig, sigHash, t.pkBytes)

\* the insertion of verifySig: sigCache.Add
verifySigAdd(t, sigHash, cache) ==
  IF t.hasSigCache THEN cache \cup {<<sigHash, t.fullSigBytes, t.pkBytes>>} ELSE cache

\* the number of engines
NumVMs == 2

VMs == 1..NumVMs

\* the taproot context of a leaf execution
LeafCtx(annex, codeSepPos, tapLeafHash) ==
  [isNil |-> FALSE, annex |-> annex, codeSepPos |-> codeSepPos,
   tapLeafHash |-> tapLeafHash, sigOpsBudget |-> sigOpsDelta, mustSucceed |-> FALSE]

PlainCtx == LeafCtx(<<>>, blankCodeSepValue, 1)

\* what an engine that executes a signature check holds, and the key and
\* the signature the check popped
Verification(pkBytes, rawSig, txIn, ctx) ==
  [pkBytes |-> pkBytes, rawSig |-> rawSig, tx |-> Tx(txIn), txIdx |-> 0,
   hasSigCache |-> TRUE, taprootCtx |-> ctx]

OneIn == << In(<<>>, <<>>) >>
TwoIns == << In(<<>>, <<>>), In(<<>>, <<>>) >>

\* the signature of the key for the sighash type over the inputs
Signed(txIn, hashType) ==
  SchnorrSign(KeySpendKey, CalcTaprootSignatureHash(hashType, Tx(txIn), 0))

\* keys of 0, 31, 32 and 33 bytes, one of 32 bytes that is no point
VerifierKeys == { <<>>, Rep(31, 9), KeySpendKey, Rep(32, 255), Rep(33, 9) }

\* signatures of 0, 63, 64, 65 and 66 bytes: valid, for another digest, out
\* of range, with the sighash types 1, 0 and 4 appended
VerifierSigs ==
  { <<>>, Rep(63, 1), Signed(OneIn, 0), Signed(TwoIns, 0), Rep(SignatureSize, 255),
    Signed(OneIn, 1) \o <<1>>, Signed(OneIn, 0) \o <<0>>, Signed(OneIn, 0) \o <<4>>,
    Rep(SignatureSize, 255) \o <<1>>, Signed(OneIn, 1) \o <<1, 1>> }

\* leaf executions that differ in the leaf hash, the annex, the position of
\* the code separator
LeafCtxs ==
  { PlainCtx, LeafCtx(<<>>, blankCodeSepValue, 2), LeafCtx(<<80, 1>>, blankCodeSepValue, 1),
    LeafCtx(<<>>, 0, 1) }

\* the checks of the first engine
Verifications ==
  { Verification(pk, sig, OneIn, PlainCtx) : pk \in VerifierKeys, sig \in VerifierSigs }
    \cup { Verification(KeySpendKey, Signed(OneIn, 0), OneIn, c) : c \in LeafCtxs }

\* the checks of the other engines: the same signature over the same and
\* over another transaction, in other leaf contexts, and a wrong signature
SharedVerifications ==
  { Verification(KeySpendKey, Signed(OneIn, 0), txIn, PlainCtx) : txIn \in {OneIn, TwoIns} }
    \cup { Verification(KeySpendKey, Signed(OneIn, 0), OneIn, c) : c \in LeafCtxs }
    \cup { Verification(KeySpendKey, Signed(OneIn, 1) \o <<1>>, OneIn, PlainCtx) }

\* an engine that has not built its verifier yet
Unverified ==
  [at |-> "new", err |-> "nil", verifier |-> NoVerifier, sigHashArgs |-> <<>>,
   sigHash |-> -1, sigValid |-> FALSE, hit |-> FALSE]

VerifierInit ==
  /\ args \in { a \in [VMs -> Verifications \cup SharedVerifications] :
                  \A i \in VMs : i > 1 => a[i] \in SharedVerifications }
  /\ vm = [i \in VMs |-> Unverified]
  /\ sigCache = {}
  /\ pc = "verify"
  /\ done = FALSE
  /\ err = "nil"
  /\ result = "none"
  /\ stepInfo = NoStepInfo
  /\ nSteps = 0
  /\ nCb = 0
  /\ outcomes = <<>>

\* the engine i after newBaseTapscriptSigVerifier returned r
verifierBuilt(i, r) ==
  /\ vm' = [vm EXCEPT ![i] =
              IF r.err # "nil" THEN [@ EXCEPT !.at = "failed", !.err = r.err]
              ELSE [@ EXCEPT !.at = "built", !.verifier = r.t]]
  /\ UNCHANGED <<args, sigCache, pc, done, err, result, stepInfo, nSteps, nCb, outcomes>>

\* newBaseTapscriptSigVerifier on the key and the signature of the engine i
NewVerifier(i) ==
  /\ vm[i].at = "new"
  /\ \E r \in {newBaseTapscriptSigVerifier(args[i].pkBytes, args[i].rawSig, args[i])} :
       verifierBuilt(i, r)

\* the engine i after Verify computed the digest h of the arguments a
digestComputed(i, a, h) ==
  /\ vm' = [vm EXCEPT ![i] =
              IF h = -1
                THEN [@ EXCEPT !.at = "returned", !.sigHashArgs = a, !.sigValid = FALSE]
                ELSE [@ EXCEPT !.at = "lookup", !.sigHashArgs = a, !.sigHash = h]]
  /\ UNCHANGED <<args, sigCache, pc, done, err, result, stepInfo, nSteps, nCb, outcomes>>

\* baseTapscriptSigVerifier.Verify to the call of verifySig
VerifyBegin(i) ==
  /\ vm[i].at = "built"
  /\ \E a \in {sigHashArgs(vm[i].verifier)} : digestComputed(i, a, sigHashOf(a))

\* verifySig: the lookup in the cache
VerifyLookup(i) ==
  /\ vm[i].at = "lookup"
  /\ vm' = [vm EXCEPT ![i] =
              IF verifySigExists(vm[i].verifier, vm[i].sigHash, sigCache)
                THEN [@ EXCEPT !.at = "returned", !.sigValid = TRUE, !.hit = TRUE]
                ELSE [@ EXCEPT !.at = "check"]]
  /\ UNCHANGED <<args, sigCache, pc, done, err, result, stepInfo, nSteps, nCb, outcomes>>

\* verifySig: the verification of the signature
VerifyCheck(i) ==
  /\ vm[i].at = "check"
  /\ vm' = [vm EXCEPT ![i] =
              IF verifySigValid(vm[i].verifier, vm[i].sigHash)
                THEN [@ EXCEPT !.at = "insert"]
                ELSE [@ EXCEPT !.at = "returned", !.sigValid = FALSE]]
  /\ UNCHANGED <<args, sigCache, pc, done, err, result, stepInfo, nSteps, nCb, outcomes>>

\* verifySig: the insertion of the valid triple, and the return
VerifyInsert(i) ==
  /\ vm[i].at = "insert"
  /\ sigCache' = verifySigAdd(vm[i].verifier, vm[i].sigHash, sigCache)
  /\ vm' = [vm EXCEPT ![i] = [@ EXCEPT !.at = "returned", !.sigValid = TRUE]]
  /\ UNCHANGED <<args, pc, done, err, result, stepInfo, nSteps, nCb, outcomes>>

VerifierNext ==
  \E i \in VMs :
    \/ NewVerifier(i)
    \/ VerifyBegin(i)
    \/ VerifyLookup(i)
    \/ VerifyCheck(i)
    \/ VerifyInsert(i)

VerifierSpec == VerifierInit /\ [][VerifierNext]_vars
\* the transition is the engine i building its verifier
Builds(i) == vm[i].at = "new" /\ vm'[i].at # "new"

\* the engine i has a verifier for the key it was given
BuiltWith(i) ==
  /\ vm'[i].at = "built" /\ vm'[i].err = "nil"
  /\ vm'[i].verifier.pkBytes = args[i].pkBytes

\* the engine i has no verifier but the error e
FailsWith(i, e) == vm'[i].at = "failed" /\ vm'[i].err = e /\ vm'[i].verifier = NoVerifier

\* the signature the engine i was given parses with the key
SigParses(i) == parseTaprootSigAndPubKey(KeySpendKey, args[i].rawSig).err = "nil"

\* C37: building a tapscript signature verifier with a public key of 0 bytes
\* fails with TaprootPubkeyIsEmpty, with 32 bytes it parses the key as a
\* BIP-340 x-only key, and with any other length it always fails with
\* DiscourageUpgradeablePubKeyType: there is no mode in which a key of
\* unknown length is accepted as a successful check.
C37_PubKeyLength ==
  /\ [][ \A i \in VMs :
           Builds(i) =>
             IF Len(args[i].pkBytes) = 0 THEN FailsWith(i, "ErrTaprootPubkeyIsEmpty")
             ELSE IF Len(args[i].pkBytes) = 32
               THEN IF ~ParsePubKeyOK(args[i].pkBytes) THEN FailsWith(i, "ErrPubKeyParse")
                    ELSE IF SigParses(i) THEN BuiltWith(i)
                    ELSE vm'[i].at = "failed"
                           /\ vm'[i].err \in {"ErrSigParse", "ErrInvalidTaprootSigLen"}
             ELSE FailsWith(i, "ErrDiscourageUpgradeablePubKeyType") ]_vars
  /\ [](\A i \in VMs :
          Len(args[i].pkBytes) # 32 => vm[i].at \in {"new", "failed"} /\ ~vm[i].sigValid)

\* a key of 33 bytes with a signature that is valid for the key of 32 bytes
C37_Witness ==
  /\ vm[1].at = "failed" /\ vm[1].err = "ErrDiscourageUpgradeablePubKeyType"
  /\ args[1].pkBytes = Rep(33, 9)
  /\ args[1].rawSig = Signed(OneIn, 0)

\* a key of 0 bytes
C37_Witness_Empty ==
  /\ vm[1].at = "failed" /\ vm[1].err = "ErrTaprootPubkeyIsEmpty"
  /\ args[1].pkBytes = <<>>

\* a key of 32 bytes that is no point of the curve, and one that is
C37_Witness_Parsed ==
  /\ vm[1].at = "failed" /\ vm[1].err = "ErrPubKeyParse" /\ args[1].pkBytes = Rep(32, 255)
  /\ vm[2].at = "built" /\ vm[2].verifier.pkBytes = KeySpendKey
\* the engine i was given a key that parses, so that the signature is parsed
KeyParses(i) == Len(args[i].pkBytes) = 32 /\ ParsePubKeyOK(args[i].pkBytes)

\* the verifier of the engine i took the signature sig with the sighash type
TakenAs(i, sig, hashType) ==
  IF ParseSignatureOK(sig)
    THEN /\ vm'[i].at = "built" /\ vm'[i].err = "nil"
         /\ vm'[i].verifier.sig = sig
         /\ vm'[i].verifier.hashType = hashType
         /\ vm'[i].verifier.fullSigBytes = args[i].rawSig
    ELSE FailsWith(i, "ErrSigParse")

\* C38: signature parsing classifies by length: a 64-byte signature is taken
\* with the implicit default sighash type; a 65-byte signature whose last
\* byte is non-zero is taken with that byte as its sighash type and the first
\* 64 bytes as the signature; every other input, including a 65-byte
\* signature whose last byte is zero, fails with InvalidTaprootSigLen.
C38_SigLength ==
  [][ \A i \in VMs :
        Builds(i) /\ KeyParses(i) =>
          IF Len(args[i].rawSig) = 64 THEN TakenAs(i, args[i].rawSig, 0)
          ELSE IF Len(args[i].rawSig) = 65 /\ args[i].rawSig[65] # 0
            THEN TakenAs(i, SubSeq(args[i].rawSig, 1, 64), args[i].rawSig[65])
          ELSE FailsWith(i, "ErrInvalidTaprootSigLen") ]_vars

\* a signature of 65 bytes whose last byte is zero
C38_Witness ==
  /\ vm[1].at = "failed" /\ vm[1].err = "ErrInvalidTaprootSigLen"
  /\ args[1].pkBytes = KeySpendKey
  /\ args[1].rawSig = Signed(OneIn, 0) \o <<0>>

\* a signature of 65 bytes with the sighash type 1
C38_Witness_Type ==
  /\ vm[1].at = "built" /\ vm[1].verifier.hashType = 1
  /\ vm[1].verifier.sig = Signed(OneIn, 1)
  /\ args[1].rawSig = Signed(OneIn, 1) \o <<1>>

\* a signature of 64 bytes, and one of 66 bytes
C38_Witness_Default ==
  /\ vm[2].at = "built" /\ vm[2].verifier.hashType = 0 /\ Len(args[2].rawSig) = 64
  /\ vm[1].at = "failed" /\ vm[1].err = "ErrInvalidTaprootSigLen"
  /\ args[1].pkBytes = KeySpendKey /\ Len(args[1].rawSig) = 66
\* the curve check of the triple: the first 64 bytes of the signature bytes
\* verify the digest under the key
CurveValid(digest, fullSigBytes, pkBytes) ==
  /\ Len(fullSigBytes) >= SignatureSize
  /\ SchnorrVerify(SubSeq(fullSigBytes, 1, SignatureSize), digest, pkBytes)

\* the cache holds only triples for which the curve check succeeds
OnlyValidCached == \A e \in sigCache : CurveValid(e[1], e[2], e[3])

\* the triple the engine i verifies
OwnTriple(i) == <<vm[i].sigHash, args[i].rawSig, args[i].pkBytes>>

\* a verification that computed its digest returns the curve-validity of
\* its own triple
ReturnsOwnValidity ==
  \A i \in VMs :
    vm[i].at = "returned" /\ vm[i].sigHash # -1 =>
      vm[i].sigValid = CurveValid(vm[i].sigHash, args[i].rawSig, args[i].pkBytes)

\* the transition is the engine i returning from its verification
Returns(i) == vm[i].at # "returned" /\ vm'[i].at = "returned"

\* a verification that fails inserts nothing, and nothing but the own valid
\* triple of the engine that returns is ever inserted
InsertsOwnValid ==
  /\ \A i \in VMs : Returns(i) /\ ~vm'[i].sigValid => sigCache' = sigCache
  /\ sigCache' # sigCache =>
       \E i \in VMs : /\ Returns(i) /\ vm'[i].sigValid
                      /\ sigCache' = sigCache \cup {OwnTriple(i)}

\* a lookup that finds the triple returns true and leaves the cache
HitReturnsTrue ==
  \A i \in VMs :
    vm[i].at = "lookup" /\ vm'[i].at # "lookup" /\ OwnTriple(i) \in sigCache =>
      /\ vm'[i].at = "returned" /\ vm'[i].sigValid /\ vm'[i].hit
      /\ sigCache' = sigCache

\* C39: for any number of VMs sharing one signature cache and any
\* interleaving of the lookup, curve-check and insert steps of their
\* signature verifications, starting from an empty cache: the cache only ever
\* contains (digest, signature, pubkey) tuples for which the curve check
\* succeeds, a failed verification inserts nothing, a cache hit returns true
\* without changing the cache, and every verification returns exactly the
\* curve-validity of its own tuple.
C39_SharedCache ==
  /\ [](OnlyValidCached /\ ReturnsOwnValidity)
  /\ [][InsertsOwnValid /\ HitReturnsTrue]_vars

\* the engine 2 returned true from a hit on the triple the engine 1 inserted
C39_Witness ==
  /\ vm[1].at = "returned" /\ vm[1].sigValid /\ ~vm[1].hit
  /\ vm[2].at = "returned" /\ vm[2].sigValid /\ vm[2].hit
  /\ sigCache = {OwnTriple(1)}

\* both engines missed the cache, verified and inserted the same triple
C39_Witness_Race ==
  /\ vm[1].at = "returned" /\ vm[1].sigValid /\ ~vm[1].hit
  /\ vm[2].at = "returned" /\ vm[2].sigValid /\ ~vm[2].hit
  /\ OwnTriple(1) = OwnTriple(2)
  /\ sigCache = {OwnTriple(1)}

\* the signature that the engine 1 cached is not valid for the transaction
\* of the engine 2, which returned false and inserted nothing
C39_Witness_Failed ==
  /\ vm[1].at = "returned" /\ vm[1].sigValid
  /\ vm[2].at = "returned" /\ ~vm[2].sigValid /\ vm[2].sigHash # -1
  /\ args[1].rawSig = args[2].rawSig /\ args[1].pkBytes = args[2].pkBytes
  /\ sigCache = {OwnTriple(1)}
\* the engine i has computed the digest of its signature check
HasDigest(i) == vm[i].at \in {"lookup", "check", "insert", "returned"}

\* the leaf executions of the engines i and j are over the same transaction,
\* input index and sighash type
SameInput(i, j) ==
  /\ args[i].tx = args[j].tx /\ args[i].txIdx = args[j].txIdx
  /\ vm[i].verifier.hashType = vm[j].verifier.hashType

\* they differ in the leaf hash, the annex or the code-separator position
OtherLeafCtx(i, j) ==
  \/ args[i].taprootCtx.tapLeafHash # args[j].taprootCtx.tapLeafHash
  \/ args[i].taprootCtx.annex # args[j].taprootCtx.annex
  \/ args[i].taprootCtx.codeSepPos # args[j].taprootCtx.codeSepPos

\* what taprootSigVerifier.Verify, the key-spend verifier, computes its
\* digest from for the input of the engine i
KeySpendArgs(i) == <<vm[i].verifier.hashType, args[i].tx, args[i].txIdx>>

\* C40: the digest that a tapscript signature check verifies against depends
\* on the leaf hash, the annex and the code-separator position of the
\* taproot context: two leaf executions over the same transaction, input
\* index and sighash type that differ in leaf hash, annex or code-separator
\* position compute the digest from different inputs, and the tapscript
\* digest differs from the key-spend digest of the same input.
C40_DigestOfLeaf ==
  /\ \A i \in VMs, j \in VMs :
       HasDigest(i) /\ HasDigest(j) /\ SameInput(i, j) /\ OtherLeafCtx(i, j) =>
         vm[i].sigHashArgs # vm[j].sigHashArgs
  /\ \A i \in VMs :
       HasDigest(i) /\ vm[i].sigHash # -1 =>
         /\ vm[i].sigHashArgs # KeySpendArgs(i)
         /\ vm[i].sigHash # sigHashOf(KeySpendArgs(i))

\* two leaf executions with different leaf hashes computed the same digest
\* from the same arguments, and one signature is valid in both
C40_Witness ==
  /\ vm[1].at = "returned" /\ vm[1].sigValid
  /\ vm[2].at = "returned" /\ vm[2].sigValid
  /\ args[1].taprootCtx.tapLeafHash # args[2].taprootCtx.tapLeafHash
  /\ args[1].rawSig = args[2].rawSig
  /\ vm[1].sigHashArgs = vm[2].sigHashArgs
  /\ vm[1].sigHash = vm[2].sigHash

\* the same for executions that differ in the annex, and for executions
\* that differ in the position of the code separator
C40_Witness_Annex ==
  /\ vm[1].at = "returned" /\ vm[1].sigValid
  /\ vm[2].at = "returned" /\ vm[2].sigValid
  /\ args[1].taprootCtx.annex # args[2].taprootCtx.annex
  /\ vm[1].sigHash = vm[2].sigHash

C40_Witness_CodeSep ==
  /\ vm[1].at = "returned" /\ vm[1].sigValid
  /\ vm[2].at = "returned" /\ vm[2].sigValid
  /\ args[1].taprootCtx.codeSepPos # args[2].taprootCtx.codeSepPos
  /\ vm[1].sigHash = vm[2].sigHash

\* the signature of the key spend of the input is valid in the leaf
C40_Witness_KeySpend ==
  /\ vm[1].at = "returned" /\ vm[1].sigValid
  /\ args[1].rawSig = SchnorrSign(KeySpendKey, sigHashOf(KeySpendArgs(1)))
  /\ vm[1].sigHash = sigHashOf(KeySpendArgs(1))

=============================================================================
